---------------------------- MODULE Spec2Model ----------------------------
(***************************************************************************)
(* Model of the SoftGate console (the Home component of                    *)
(* src/unnamed/part_003, lines 319-1437, with the gateway of               *)
(* src/unnamed/part_000 and the function store of                          *)
(* src/softgate_development_plan.md).                                      *)
(*                                                                         *)
(* Time is discrete: one Tick is one second, the period of the polling     *)
(* interval.  A timer callback or a promise continuation is one atomic     *)
(* step (JavaScript runs each to completion on a single thread).           *)
(* Optional values (undefined / null) are sequences: <<>> is absent,       *)
(* <<v>> is present.  Text is a sequence of one-character strings where    *)
(* the code searches inside it (raw status strings), a tag otherwise.      *)
(***************************************************************************)
EXTENDS Integers, Sequences, FiniteSets, TLC

None == <<>>
Some(v) == <<v>>
IsSome(o) == o # <<>>
Val(o) == o[1]
\* if (x) on an optional string or object: undefined, null and "" are falsy
Truthy(o) == IsSome(o) /\ Val(o) \notin {"null", ""}

-----------------------------------------------------------------------------
(* Program constants *)

MAX_POLL_ATTEMPTS == 60
MAX_STUCK_ATTEMPTS == 30
\* window.setTimeout(..., 60000): the run timeout, in seconds
RUN_TIMEOUT_S == 60
\* apiRequest's default timeoutMs = 10000, in seconds
REQUEST_TIMEOUT_S == 10

(* Bounds of the model *)

\* accepted Run presses explored: in the protocol and polling specifications,
\* and in the console specification
MaxRuns == 2
MaxSoloRuns == 1
\* seconds a network call may stay in flight (at most REQUEST_TIMEOUT_S)
MaxLatency == 1
\* entries in the function list of the store specification
MaxStoreLen == 3
\* the timeoutMs a caller of apiRequest passes, in seconds
MaxCallerTimeout == 2
\* log lines after which the backend sends no further logged_at / error
MaxLogLen == 4
\* drafts created in one session: in the console specification, and in the
\* specification of the function list
MaxDrafts == 1
MaxListDrafts == 2
\* gestures the user makes on the function list and the editor while the
\* effects of Home are followed
MaxGestures == 3
\* seconds the closures of a run are followed after its session was closed
MaxStale == 2

-----------------------------------------------------------------------------
(* Text: raw status strings and String.prototype.includes / toLowerCase *)

UpperLetters ==
  <<"A", "B", "C", "D", "E", "F", "G", "H", "I", "J", "K", "L", "M", "N", "O",
    "P", "Q", "R", "S", "T", "U", "V", "W", "X", "Y", "Z">>
LowerLetters ==
  <<"a", "b", "c", "d", "e", "f", "g", "h", "i", "j", "k", "l", "m", "n", "o",
    "p", "q", "r", "s", "t", "u", "v", "w", "x", "y", "z">>

LowerOf(c) ==
  IF \E i \in 1..26 : UpperLetters[i] = c
    THEN LowerLetters[CHOOSE i \in 1..26 : UpperLetters[i] = c]
    ELSE c

toLowerCase(s) == [i \in 1..Len(s) |-> LowerOf(s[i])]

includes(s, sub) ==
  \E i \in 0..(Len(s) - Len(sub)) : SubSeq(s, i + 1, i + Len(sub)) = sub

S_queue == <<"q", "u", "e", "u", "e">>
S_process == <<"p", "r", "o", "c", "e", "s", "s">>
S_run == <<"r", "u", "n">>
S_success == <<"s", "u", "c", "c", "e", "s", "s">>
S_complete == <<"c", "o", "m", "p", "l", "e", "t", "e">>
S_done == <<"d", "o", "n", "e">>
S_fail == <<"f", "a", "i", "l">>
S_error == <<"e", "r", "r", "o", "r">>

\* normalizeStatus without the toLowerCase of line 706
normalizeStatusCaseSensitive(status) ==
  LET normalized == IF IsSome(status) THEN Val(status) ELSE <<>>
  IN  IF includes(normalized, S_queue) THEN "queued"
      ELSE IF includes(normalized, S_process) \/ includes(normalized, S_run)
        THEN "processing"
      ELSE IF \/ includes(normalized, S_success)
              \/ includes(normalized, S_complete)
              \/ includes(normalized, S_done)
        THEN "success"
      ELSE IF includes(normalized, S_fail) \/ includes(normalized, S_error)
        THEN "fail"
      ELSE "processing"

\* normalizeStatus(status?: string): RunStatus
normalizeStatus(status) ==
  LET normalized == IF IsSome(status) THEN toLowerCase(Val(status)) ELSE <<>>
  IN  IF includes(normalized, S_queue) THEN "queued"
      ELSE IF includes(normalized, S_process) \/ includes(normalized, S_run)
        THEN "processing"
      ELSE IF \/ includes(normalized, S_success)
              \/ includes(normalized, S_complete)
              \/ includes(normalized, S_done)
        THEN "success"
      ELSE IF includes(normalized, S_fail) \/ includes(normalized, S_error)
        THEN "fail"
      ELSE "processing"

\* raw status strings the backend is taken to send
R_queued == <<"q", "u", "e", "u", "e", "d">>
R_PROCESSING == <<"P", "R", "O", "C", "E", "S", "S", "I", "N", "G">>
R_success == <<"s", "u", "c", "c", "e", "s", "s">>
R_failed == <<"f", "a", "i", "l", "e", "d">>
R_pending == <<"p", "e", "n", "d", "i", "n", "g">>

-----------------------------------------------------------------------------
(* Backend responses (InvokeResponse of src/unnamed/part_000) *)

Resp(id, st, res, err, dur, at) ==
  [invocation_id |-> id, status |-> st, result |-> res, error_message |-> err,
   duration_ms |-> dur, logged_at |-> at]

\* what the invoke endpoint is taken to answer
InvokeResponses ==
  { Resp(Some(7), Some(R_queued), None, None, None, None),
    Resp(Some(7), Some(R_success), None, None, None, None),
    Resp(None, Some(R_queued), None, None, None, None) }

\* and in the submit specification also an invocation whose id is 0
InvokeResponsesAll ==
  InvokeResponses \cup
  { Resp(Some(0), Some(R_queued), None, None, None, None),
    Resp(Some(0), Some(R_success), Some("r1"), None, Some(842), None) }

\* what the status endpoint is taken to answer: in the protocol
\* specification one status in flight and the terminal ones
PollResponses ==
  { Resp(None, Some(R_PROCESSING), None, None, None, None),
    Resp(None, Some(R_success), Some("r1"), None, Some(842), None),
    Resp(None, Some(R_failed), None, Some("E1"), None, None) }

\* and in the polling specification every shape of answer
PollResponsesAll ==
  PollResponses \cup
  { Resp(None, Some(R_queued), None, None, None, None),
    Resp(None, Some(R_pending), None, None, None, None),
    Resp(None, Some(R_queued), None, None, None, Some("t1")),
    Resp(None, Some(R_PROCESSING), Some("r1"), None, None, None),
    Resp(None, Some(R_PROCESSING), None, Some("E1"), None, None),
    Resp(None, Some(R_success), Some("r2"), None, None, None) }

\* messages of the errors apiRequest throws (abort, network, non-2xx)
GatewayErrors == {"E_GATEWAY"}

\* PolledStatus with the demotion of lines 813-815 tried before the
\* promotion of lines 810-812
PolledStatusDemotionFirst(res) ==
  LET n == normalizeStatus(res.status)
      demoted == IF n = "processing" /\ Truthy(res.error_message) THEN "fail"
                 ELSE n
  IN  IF demoted = "processing" /\ Truthy(res.result) THEN "success"
      ELSE demoted

\* the status the tracker reports for a poll response, lines 809-815
PolledStatus(res) ==
  LET n == normalizeStatus(res.status)
      promoted == IF n = "processing" /\ Truthy(res.result) THEN "success"
                  ELSE n
  IN  IF promoted = "processing" /\ Truthy(res.error_message) THEN "fail"
      ELSE promoted

\* normalizeStatus and PolledStatus of every response of the model, evaluated
\* once
AllResponses == InvokeResponsesAll \cup PollResponsesAll
NormalizedOf == [res \in AllResponses |-> normalizeStatus(res.status)]
PolledStatusOf == [res \in AllResponses |-> PolledStatus(res)]

-----------------------------------------------------------------------------
VARIABLES
  \* function store (zustand)
  functions, selectedId,
  \* component state (useState)
  payloadValid, jsonError, isRunning, runMessage, activeTab, runStatus,
  runLogs, runResult, runDurationMs, isDeleting, toast, draftCounter,
  \* refs (useRef)
  pollRef, pollAttemptsRef, runTimeoutRef, lastStatusRef, stuckCountRef,
  \* browser timers: active intervals and armed timeouts, keyed by timer id
  intervals, timeouts,
  \* network calls in flight
  invokeCalls, pollCalls, deleteCall,
  \* number of runs started (the next run takes the next timer ids), and the
  \* seconds since each run's startedAt = Date.now()
  runCount, elapsed,
  \* history: the run whose poll session is open, and the seconds for which
  \* closures of a closed session have been alive
  session, staleAge,
  \* the save button: isSaving (useState) and the createFunction call in flight
  isSaving, saveCall,
  \* a response handed to the status normalizer, and what came out
  probeIn, probeOut,
  \* the effects of Home: lastFetchedFunctionId (useRef), and the
  \* listFunctions, getFunction and listInvocations calls whose answer is
  \* still listened to (not cancelled by the effect's cleanup)
  lastFetchedFunctionId, listCall, detailCall, historyCall,
  \* the history tab: historyRows, historyError, historyLoading (useState),
  \* and the listInvocations call cancelled last whose answer is still to come
  historyRows, historyError, historyLoading, staleHistoryCall,
  \* the number of gestures the user has made on the function list
  gestures,
  \* one call of apiRequest followed on its own: its abort timer, its
  \* AbortController, the response of fetch and what the call settled with
  request

\* what an apiRequest call has settled with: nothing yet, a value, an Error
Pending == [kind |-> "pending", message |-> "", value |-> None]
Returned(v) == [kind |-> "value", message |-> "", value |-> Some(v)]
Thrown(message) == [kind |-> "error", message |-> message, value |-> None]

\* apiRequest has not been called
NoRequest ==
  [phase |-> "idle", timeoutS |-> 0, age |-> 0, timeout |-> FALSE,
   aborted |-> FALSE, res |-> None, outcome |-> Pending]

storeVars == <<functions, selectedId, draftCounter>>
uiVars == <<payloadValid, jsonError, isRunning, runMessage, activeTab,
            runStatus, runLogs, runResult, runDurationMs, isDeleting, toast>>
refVars == <<pollRef, pollAttemptsRef, runTimeoutRef, lastStatusRef,
             stuckCountRef>>
envVars == <<intervals, timeouts, invokeCalls, pollCalls, deleteCall,
             runCount, elapsed>>
saveVars == <<isSaving, saveCall>>
probeVars == <<probeIn, probeOut, request>>
historyVars == <<historyRows, historyError, historyLoading, staleHistoryCall>>
effectVars == <<lastFetchedFunctionId, listCall, detailCall, historyCall,
                historyVars>>
vars == <<storeVars, uiVars, refVars, envVars, session, staleAge, saveVars,
          probeVars, effectVars, gestures>>


-----------------------------------------------------------------------------
(* Functions on finite maps *)

Without(f, S) == [x \in (DOMAIN f) \ S |-> f[x]]
With(f, k, v) == [x \in (DOMAIN f) \cup {k} |-> IF x = k THEN v ELSE f[x]]
EmptyMap == [x \in {} |-> 0]
OptSet(o) == IF IsSome(o) THEN {Val(o)} ELSE {}

-----------------------------------------------------------------------------
(* Function store: useFunctionStore *)

\* defaultCodeByLanguage[language]
defaultCodeByLanguage(language) == <<"template", language>>

Fn(id, name, language) ==
  [id |-> id, name |-> name, language |-> language,
   code |-> defaultCodeByLanguage(language)]

initialFunctions ==
  << Fn(1, "ingest-events", "python"),
     Fn(2, "image-resizer", "node"),
     Fn(3, "metrics-collector", "go") >>

Store == [functions |-> functions, selectedId |-> selectedId]

FnIds(fns) == {fns[i].id : i \in 1..Len(fns)}

\* functions.find((fn) => fn.id === selectedId) ?? null
FindFn(fns, sel) ==
  IF IsSome(sel) /\ Val(sel) \in FnIds(fns)
    THEN Some(fns[CHOOSE i \in 1..Len(fns) :
                    /\ fns[i].id = Val(sel)
                    /\ \A j \in 1..(i - 1) : fns[j].id # Val(sel)])
    ELSE None

selectedFunction == FindFn(functions, selectedId)

setSelected(st, id) == [st EXCEPT !.selectedId = Some(id)]

\* upsertFunction without the lookup of lines 353-361: fn is always appended
upsertFunctionAppends(st, fn) ==
  [functions |-> Append(st.functions, fn), selectedId |-> Some(fn.id)]

\* upsertFunction, lines 351-366
upsertFunction(st, fn) ==
  IF fn.id \in FnIds(st.functions)
    THEN [functions |-> [i \in 1..Len(st.functions) |->
                           IF st.functions[i].id = fn.id THEN fn
                           ELSE st.functions[i]],
          selectedId |-> IF IsSome(st.selectedId) THEN st.selectedId
                         ELSE Some(fn.id)]
    ELSE [functions |-> Append(st.functions, fn), selectedId |-> Some(fn.id)]

\* setFunctions, lines 316-321
setFunctions(st, fns) ==
  [functions |-> fns,
   selectedId |-> IF Len(fns) > 0 THEN Some(fns[1].id) ELSE st.selectedId]

\* setCode, lines 324-334
setCode(st, code) ==
  [st EXCEPT !.functions =
     [i \in 1..Len(st.functions) |->
        IF Some(st.functions[i].id) = st.selectedId
          THEN [st.functions[i] EXCEPT !.code = code]
          ELSE st.functions[i]]]

\* changeLanguage that leaves the code as it is
changeLanguageKeepsCode(st, language) ==
  [st EXCEPT !.functions =
     [i \in 1..Len(st.functions) |->
        IF Some(st.functions[i].id) = st.selectedId
          THEN [st.functions[i] EXCEPT !.language = language]
          ELSE st.functions[i]]]

\* changeLanguage, lines 335-350
changeLanguage(st, language) ==
  [st EXCEPT !.functions =
     [i \in 1..Len(st.functions) |->
        IF Some(st.functions[i].id) = st.selectedId
          THEN [st.functions[i] EXCEPT !.language = language,
                                       !.code = defaultCodeByLanguage(language)]
          ELSE st.functions[i]]]

\* mergeFunction with a partial of language and code, lines 379-384
mergeFunction(st, id, language, code) ==
  [st EXCEPT !.functions =
     [i \in 1..Len(st.functions) |->
        IF st.functions[i].id = id
          THEN [st.functions[i] EXCEPT !.language = language, !.code = code]
          ELSE st.functions[i]]]

\* removeFunction that leaves selectedId as it is
removeFunctionKeepsSelection(st, id) ==
  [functions |-> SelectSeq(st.functions, LAMBDA fn : fn.id # id),
   selectedId |-> st.selectedId]

\* removeFunction, lines 367-378
removeFunction(st, id) ==
  LET filtered == SelectSeq(st.functions, LAMBDA fn : fn.id # id)
  IN  [functions |-> filtered,
       selectedId |-> IF st.selectedId = Some(id)
                        THEN (IF Len(filtered) > 0 THEN Some(filtered[1].id)
                              ELSE None)
                        ELSE st.selectedId]

-----------------------------------------------------------------------------
(* Texts shown to the user, as tags; log lines *)

Text(tag) == <<tag>>
TextWith(tag, detail) == <<tag, detail>>

\* JSON.stringify(result, null, 2)
Stringify(result) == <<"json", result>>

LogLine(tag, id, text) == [tag |-> tag, id |-> id, text |-> text]
LogQueued == LogLine("Queued", 0, Text("Job accepted"))
LogError(text) == LogLine("Error", 0, text)

IsTerminal(status) == status \in {"success", "fail"}

-----------------------------------------------------------------------------
\* the Home component and the store right after mounting
InitHome ==
  /\ functions = initialFunctions
  /\ selectedId = Some(initialFunctions[1].id)
  /\ draftCounter = 0
  /\ payloadValid = TRUE
  /\ jsonError = FALSE
  /\ isRunning = FALSE
  /\ runMessage = None
  /\ activeTab = "output"
  /\ runStatus = "idle"
  /\ runLogs = <<>>
  /\ runResult = <<>>
  /\ runDurationMs = None
  /\ isDeleting = FALSE
  /\ toast = None
  /\ pollRef = None
  /\ pollAttemptsRef = 0
  /\ runTimeoutRef = None
  /\ lastStatusRef = None
  /\ stuckCountRef = 0
  /\ intervals = EmptyMap
  /\ timeouts = EmptyMap
  /\ invokeCalls = EmptyMap
  /\ pollCalls = {}
  /\ deleteCall = None
  /\ runCount = 0
  /\ elapsed = EmptyMap
  /\ session = None
  /\ staleAge = 0
  /\ isSaving = FALSE
  /\ saveCall = None
  \* the effects of the first render: listFunctions and the details of the
  \* selected function are being fetched, the output tab is open
  /\ lastFetchedFunctionId = Some(initialFunctions[1].id)
  /\ listCall = TRUE
  /\ detailCall = Some(initialFunctions[1].id)
  /\ historyCall = None
  /\ historyRows = <<>> /\ historyError = None /\ historyLoading = FALSE
  /\ staleHistoryCall = None
  /\ gestures = 0
  /\ request = NoRequest

\* no response has been handed to the normalizer
NoProbe == [normalized |-> "", polled |-> ""]

Init ==
  /\ InitHome
  /\ probeIn = Resp(None, None, None, None, None, None)
  /\ probeOut = NoProbe

\* a step of the run tracker: the save button, the normalizer probe and the
\* effects are not involved
Keep == UNCHANGED <<saveVars, probeVars, effectVars, gestures>>

-----------------------------------------------------------------------------
(* clearPoll: clearInterval(pollRef), reset of the counters,               *)
(* clearTimeout(runTimeoutRef)                                             *)

IntervalsAfterClear == Without(intervals, OptSet(pollRef))
TimeoutsAfterClear == Without(timeouts, OptSet(runTimeoutRef))

\* clearPoll without lines 716-719: the interval is left running
clearPollKeepsInterval(ivs, tms) ==
  /\ intervals' = ivs
  /\ pollRef' = pollRef
  /\ pollAttemptsRef' = 0
  /\ stuckCountRef' = 0
  /\ lastStatusRef' = None
  /\ timeouts' = Without(tms, OptSet(runTimeoutRef))
  /\ runTimeoutRef' = None

\* clearPoll, run by a callback that leaves the timers ivs and tms behind
clearPollOn(ivs, tms) ==
  /\ intervals' = Without(ivs, OptSet(pollRef))
  /\ pollRef' = None
  /\ pollAttemptsRef' = 0
  /\ stuckCountRef' = 0
  /\ lastStatusRef' = None
  /\ timeouts' = Without(tms, OptSet(runTimeoutRef))
  /\ runTimeoutRef' = None

clearPoll == clearPollOn(intervals, timeouts)

\* the runs some closure still refers to: a pending call or an active interval
LiveRuns(ivs, invs, polls) ==
  (DOMAIN ivs) \cup (DOMAIN invs) \cup {c.run : c \in polls}

\* the live runs whose session is no longer the open one
StaleRuns(live, open) == {k \in live : open # Some(k)}

\* Date.now() - startedAt stays readable as long as a closure of the run lives
ElapsedKept ==
  /\ elapsed' =
       [k \in LiveRuns(intervals', invokeCalls', pollCalls') |->
          IF k \in DOMAIN elapsed THEN elapsed[k] ELSE 0]
  /\ staleAge' =
       IF StaleRuns(LiveRuns(intervals', invokeCalls', pollCalls'), session')
            = {}
         THEN 0 ELSE staleAge

-----------------------------------------------------------------------------
(* handleRun, lines 729-898 *)

\* RunCheck without the check of line 735: a draft is sent to the backend
RunCheckDraftAllowed ==
  IF selectedFunction = None THEN "noSelection"
  ELSE IF ~payloadValid THEN "invalidJson"
  ELSE "ok"

\* RunCheck with the JSON.parse of line 741 never throwing
RunCheckAnyPayload ==
  IF selectedFunction = None THEN "noSelection"
  ELSE IF Val(selectedFunction).id < 0 THEN "draft"
  ELSE "ok"

\* the checks handleRun makes before anything else, in the code's order
RunCheck ==
  IF selectedFunction = None THEN "noSelection"
  ELSE IF Val(selectedFunction).id < 0 THEN "draft"
  ELSE IF ~payloadValid THEN "invalidJson"
  ELSE "ok"

\* The Run button is disabled while isRunning (line 1254).  Its other
\* disabling conditions repeat the checks of RunCheck, which handleRun makes
\* again on its own; the handler is modelled as callable with them unmet.
handleRunWithin(limit) ==
  /\ ~isRunning
  /\ IF RunCheck = "noSelection"
       THEN /\ runMessage' = Text("MSG_SELECT_FUNCTION")
            /\ UNCHANGED <<storeVars, payloadValid, jsonError, isRunning,
                           activeTab, runStatus, runLogs, runResult,
                           runDurationMs, isDeleting, toast, refVars, envVars,
                           session, staleAge>>
     ELSE IF RunCheck = "draft"
       THEN /\ runMessage' = Text("MSG_SAVE_BEFORE_RUN")
            /\ UNCHANGED <<storeVars, payloadValid, jsonError, isRunning,
                           activeTab, runStatus, runLogs, runResult,
                           runDurationMs, isDeleting, toast, refVars, envVars,
                           session, staleAge>>
     ELSE IF RunCheck = "invalidJson"
       THEN /\ jsonError' = TRUE
            /\ UNCHANGED <<storeVars, payloadValid, isRunning, runMessage,
                           activeTab, runStatus, runLogs, runResult,
                           runDurationMs, isDeleting, toast, refVars, envVars,
                           session, staleAge>>
     ELSE LET k == runCount + 1 IN
            /\ runCount < limit
            /\ jsonError' = FALSE
            /\ activeTab' = "output"
            /\ runStatus' = "queued"
            /\ runLogs' = <<LogQueued>>
            /\ runResult' = <<>>
            /\ runDurationMs' = None
            /\ intervals' = IntervalsAfterClear
            /\ pollRef' = None
            /\ pollAttemptsRef' = 0
            /\ stuckCountRef' = 0
            /\ lastStatusRef' = None
            /\ isRunning' = TRUE
            /\ runMessage' = Text("MSG_SENDING")
            /\ timeouts' = With(TimeoutsAfterClear, k, RUN_TIMEOUT_S)
            /\ runTimeoutRef' = Some(k)
            /\ invokeCalls' =
                 With(invokeCalls, k,
                      [fn |-> Val(selectedFunction).id, age |-> 0])
            /\ runCount' = k
            /\ session' = Some(k)
            /\ UNCHANGED <<storeVars, payloadValid, isDeleting, toast,
                           pollCalls, deleteCall>>
            /\ ElapsedKept

handleRun == handleRunWithin(MaxRuns)

\* the run timeout's callback, lines 757-763
RunTimeout(k) ==
  /\ k \in DOMAIN timeouts
  /\ timeouts[k] = 0
  \* the timeout that fires is spent
  /\ clearPollOn(intervals, Without(timeouts, {k}))
  /\ isRunning' = FALSE
  /\ runStatus' = "fail"
  /\ runMessage' = Text("MSG_RUN_TIMEOUT")
  /\ runLogs' = Append(runLogs, LogError(Text("MSG_RUN_TIMEOUT")))
  /\ session' = None
  /\ UNCHANGED <<storeVars, payloadValid, jsonError, activeTab, runResult,
                 runDurationMs, isDeleting, toast, invokeCalls, pollCalls,
                 deleteCall, runCount>>
  /\ ElapsedKept

\* a call may be answered until it is MaxLatency seconds old, and is aborted
\* by apiRequest's own timer when it is REQUEST_TIMEOUT_S seconds old
Deadline == IF MaxLatency < REQUEST_TIMEOUT_S THEN MaxLatency
            ELSE REQUEST_TIMEOUT_S

\* a response the backend may send now: one that makes the log grow only
\* while the log is short
Sendable(res) == Truthy(res.logged_at) => Len(runLogs) < MaxLogLen

\* invokeFunction(...).then, lines 767-878
InvokeThen(k, res) ==
  LET status == NormalizedOf[res]
      \* !invokeRes.invocation_id
      noId == ~IsSome(res.invocation_id) \/ Val(res.invocation_id) = 0
  IN
  /\ k \in DOMAIN invokeCalls
  /\ invokeCalls[k].age < REQUEST_TIMEOUT_S
  /\ invokeCalls' = Without(invokeCalls, {k})
  /\ runResult' = IF Truthy(res.result) THEN Stringify(Val(res.result))
                  ELSE runResult
  /\ runDurationMs' = IF IsSome(res.duration_ms) THEN res.duration_ms
                      ELSE runDurationMs
  /\ IF noId
       THEN /\ runLogs' = Append(runLogs, LogError(Text("MSG_NO_INVOCATION_ID")))
            /\ runStatus' = "fail"
            /\ isRunning' = FALSE
            /\ runMessage' = Text("MSG_INVOCATION_ID_MISSING")
            /\ session' = IF session = Some(k) THEN None ELSE session
            /\ UNCHANGED <<intervals, pollRef>>
       ELSE /\ runStatus' = status
            /\ runLogs' =
                 Append(runLogs,
                        LogLine("Invoke", Val(res.invocation_id),
                                IF IsSome(res.status) THEN Val(res.status)
                                ELSE R_queued))
            /\ intervals' =
                 With(intervals, k,
                      [fn |-> invokeCalls[k].fn,
                       invocation |-> Val(res.invocation_id), due |-> FALSE])
            /\ pollRef' = Some(k)
            /\ UNCHANGED <<isRunning, runMessage, session>>
  /\ UNCHANGED <<storeVars, payloadValid, jsonError, activeTab, isDeleting,
                 toast, pollAttemptsRef, runTimeoutRef, lastStatusRef,
                 stuckCountRef, timeouts, pollCalls, deleteCall, runCount>>
  /\ ElapsedKept

\* the .catch of invokeFunction without its clearPoll(): the timers stay
InvokeCatchKeepsTimers(k, err) ==
  /\ k \in DOMAIN invokeCalls
  /\ invokeCalls' = Without(invokeCalls, {k})
  /\ UNCHANGED <<refVars, intervals, timeouts>>
  /\ isRunning' = FALSE
  /\ runStatus' = "fail"
  /\ runMessage' = TextWith("MSG_INVOKE_FAILED", err)
  /\ runLogs' = Append(runLogs, LogError(Text(err)))
  /\ session' = None
  /\ UNCHANGED <<storeVars, payloadValid, jsonError, activeTab, runResult,
                 runDurationMs, isDeleting, toast, pollCalls, deleteCall,
                 runCount>>
  /\ ElapsedKept

\* invokeFunction(...).catch, lines 879-894
InvokeCatch(k, err) ==
  /\ k \in DOMAIN invokeCalls
  /\ invokeCalls' = Without(invokeCalls, {k})
  /\ clearPoll
  /\ isRunning' = FALSE
  /\ runStatus' = "fail"
  /\ runMessage' = TextWith("MSG_INVOKE_FAILED", err)
  /\ runLogs' = Append(runLogs, LogError(Text(err)))
  /\ session' = None
  /\ UNCHANGED <<storeVars, payloadValid, jsonError, activeTab, runResult,
                 runDurationMs, isDeleting, toast, pollCalls, deleteCall,
                 runCount>>
  /\ ElapsedKept

-----------------------------------------------------------------------------
(* The polling interval's callback, lines 793-877.  The callback is async: *)
(* PollTick is its part before the await, PollThen and PollCatch are its   *)
(* continuation once getInvocationStatus has settled.                      *)

\* StuckCountAfter without the else branch of lines 832-834
StuckCountNeverReset(polled) == stuckCountRef + 1

\* lines 830-834
StuckCountAfter(polled) ==
  IF Some(polled) = lastStatusRef THEN stuckCountRef + 1 ELSE 0

\* lines 837-840
IsStuck(polled, count) ==
  polled \in {"processing", "queued"} /\ count >= MAX_STUCK_ATTEMPTS

PollTick(k) ==
  /\ k \in DOMAIN intervals
  /\ intervals[k].due
  \* the run timeout of the same run was armed before the interval was
  \* started, so it fires first when both are due
  /\ ~(k \in DOMAIN timeouts /\ timeouts[k] = 0)
  /\ IF pollAttemptsRef + 1 >= MAX_POLL_ATTEMPTS
       THEN /\ clearPollOn([intervals EXCEPT ![k].due = FALSE], timeouts)
            /\ isRunning' = FALSE
            /\ runStatus' = "fail"
            /\ runMessage' = Text("MSG_POLL_TIMEOUT")
            /\ runLogs' = Append(runLogs, LogError(Text("MSG_POLL_TIMEOUT")))
            /\ session' = None
            /\ UNCHANGED pollCalls
       ELSE /\ pollAttemptsRef' = pollAttemptsRef + 1
            /\ intervals' = [intervals EXCEPT ![k].due = FALSE]
            /\ pollCalls' = pollCalls \cup {[run |-> k, age |-> 0]}
            /\ UNCHANGED <<isRunning, runStatus, runMessage, runLogs, session,
                           pollRef, runTimeoutRef, lastStatusRef,
                           stuckCountRef, timeouts>>
  /\ UNCHANGED <<storeVars, payloadValid, jsonError, activeTab, runResult,
                 runDurationMs, isDeleting, toast, invokeCalls, deleteCall,
                 runCount>>
  /\ ElapsedKept

\* the terminal branch without lines 857-859: the duration is the response's
durationAtEndFromResponse(res, k) == res.duration_ms

\* lines 817-819 and 857-859: the duration shown once the polled status is
\* terminal, the response's or Date.now() - startedAt
durationAtEnd(res, k) ==
  IF IsSome(res.duration_ms) THEN res.duration_ms
  ELSE Some(elapsed[k] * 1000)

PollThen(c, res) ==
  LET polledStatus == PolledStatusOf[res]
      count == StuckCountAfter(polledStatus)
      logged == IF Truthy(res.logged_at)
                  THEN Append(runLogs,
                              LogLine(polledStatus, 0, Text(Val(res.logged_at))))
                  ELSE runLogs
  IN
  /\ c \in pollCalls
  /\ c.age < REQUEST_TIMEOUT_S
  /\ Sendable(res)
  /\ pollCalls' = pollCalls \ {c}
  /\ runResult' = IF Truthy(res.result) THEN Stringify(Val(res.result))
                  ELSE runResult
  /\ IF IsStuck(polledStatus, count)
       THEN /\ clearPoll
            /\ isRunning' = FALSE
            /\ runStatus' = "fail"
            /\ runMessage' = Text("MSG_STUCK")
            /\ runLogs' = Append(logged, LogError(Text("MSG_STUCK_ABORT")))
            /\ runDurationMs' = IF IsSome(res.duration_ms) THEN res.duration_ms
                                ELSE runDurationMs
            /\ session' = None
     ELSE IF IsTerminal(polledStatus)
       THEN /\ clearPoll
            /\ isRunning' = FALSE
            /\ runStatus' = polledStatus
            /\ runMessage' =
                 IF polledStatus = "success" THEN Text("MSG_RUN_DONE")
                 ELSE IF IsSome(res.error_message)
                   THEN Text(Val(res.error_message))
                 ELSE Text("MSG_RUN_FAILED")
            /\ runLogs' = logged
            /\ runDurationMs' = durationAtEnd(res, c.run)
            /\ session' = None
     ELSE   /\ runStatus' = polledStatus
            /\ runLogs' = logged
            /\ runDurationMs' = IF IsSome(res.duration_ms) THEN res.duration_ms
                                ELSE runDurationMs
            /\ stuckCountRef' = count
            /\ lastStatusRef' = Some(polledStatus)
            /\ UNCHANGED <<isRunning, runMessage, session, intervals, pollRef,
                           pollAttemptsRef, timeouts, runTimeoutRef>>
  /\ UNCHANGED <<storeVars, payloadValid, jsonError, activeTab, isDeleting,
                 toast, invokeCalls, deleteCall, runCount>>
  /\ ElapsedKept

\* lines 861-876
PollCatch(c, err) ==
  /\ c \in pollCalls
  /\ Len(runLogs) < MaxLogLen \/ c.age = REQUEST_TIMEOUT_S
  /\ pollCalls' = pollCalls \ {c}
  /\ clearPoll
  /\ isRunning' = FALSE
  /\ runStatus' = "fail"
  /\ runMessage' = TextWith("MSG_POLL_FAILED", err)
  /\ runLogs' = Append(runLogs, LogError(Text(err)))
  /\ session' = None
  /\ UNCHANGED <<storeVars, payloadValid, jsonError, activeTab, runResult,
                 runDurationMs, isDeleting, toast, invokeCalls, deleteCall,
                 runCount>>
  /\ ElapsedKept

-----------------------------------------------------------------------------
(* Reset button, lines 1201-1217 *)

Reset ==
  /\ payloadValid' = TRUE
  /\ jsonError' = FALSE
  /\ runMessage' = None
  /\ runStatus' = "idle"
  /\ runLogs' = <<>>
  /\ runResult' = <<>>
  /\ runDurationMs' = None
  /\ isRunning' = FALSE
  /\ clearPoll
  /\ session' = None
  /\ UNCHANGED <<storeVars, activeTab, isDeleting, toast, invokeCalls,
                 pollCalls, deleteCall, runCount>>
  /\ ElapsedKept

-----------------------------------------------------------------------------
(* Function list handlers *)

\* handlePayloadChange, lines 578-587
handlePayloadChange(valid) ==
  /\ payloadValid' = valid
  /\ jsonError' = ~valid
  /\ UNCHANGED <<storeVars, isRunning, runMessage, activeTab, runStatus,
                 runLogs, runResult, runDurationMs, isDeleting, toast,
                 refVars, envVars, session, staleAge>>

\* handleCreateFunction, lines 593-620, with a name typed into the form
\* draft ids handed out by the number of drafts now in the list
NextDraftIdFromList ==
  -(Cardinality({i \in 1..Len(functions) : functions[i].id < 0}) + 1)

\* const draftId = -(draftCounter + 1), line 598
NextDraftId == -(draftCounter + 1)

handleCreateFunctionWithin(limit, lang) ==
  LET draftId == NextDraftId
      st == setSelected(upsertFunction(Store, Fn(draftId, "draft", lang)),
                        draftId)
  IN
  /\ draftCounter < limit
  /\ draftCounter' = draftCounter + 1
  /\ functions' = st.functions
  /\ selectedId' = st.selectedId
  /\ payloadValid' = TRUE
  /\ runStatus' = "idle"
  /\ runLogs' = <<>>
  /\ runResult' = <<>>
  /\ runDurationMs' = None
  /\ runMessage' = Text("MSG_DRAFT_CREATED")
  /\ UNCHANGED <<jsonError, isRunning, activeTab, isDeleting, toast, refVars,
                 envVars, session, staleAge>>

handleCreateFunction(lang) == handleCreateFunctionWithin(MaxDrafts, lang)

\* handleSelectFunction, lines 570-572
handleSelectFunction(id) ==
  /\ id \in FnIds(functions)
  /\ selectedId' = setSelected(Store, id).selectedId
  /\ UNCHANGED <<functions, draftCounter, uiVars, refVars, envVars, session,
                 staleAge, saveVars>>

\* runtimeForLanguage[language], lines 409-413
runtimeForLanguage(language) ==
  CASE language = "python" -> <<"p", "y", "t", "h", "o", "n">>
    [] language = "node" -> <<"n", "o", "d", "e">>
    [] language = "go" -> <<"g", "o">>

\* mapRuntimeToLanguage, lines 517-522
mapRuntimeToLanguage(runtime) ==
  LET normalized == IF IsSome(runtime) THEN toLowerCase(Val(runtime)) ELSE <<>>
  IN  IF includes(normalized, <<"p", "y">>) THEN "python"
      ELSE IF includes(normalized, <<"g", "o">>) THEN "go"
      ELSE "node"

\* handleSave without the test of lines 624-630: every selection is sent
handleSaveSendsAny ==
  /\ ~isSaving
  /\ selectedFunction # None
  /\ isSaving' = TRUE
  /\ saveCall' = Some(Val(selectedFunction))
  /\ UNCHANGED toast
  /\ UNCHANGED <<storeVars, payloadValid, jsonError, isRunning, runMessage,
                 activeTab, runStatus, runLogs, runResult, runDurationMs,
                 isDeleting, refVars, envVars, session, staleAge>>

\* handleSave up to the await, lines 622-640; the button is disabled while a
\* save is in flight or nothing is selected, lines 1162-1168
handleSave ==
  /\ ~isSaving
  /\ selectedFunction # None
  /\ IF Val(selectedFunction).id > 0
       THEN /\ toast' = Some([type |-> "error",
                              message |-> "MSG_SAVE_UNSUPPORTED"])
            /\ UNCHANGED saveVars
       ELSE /\ isSaving' = TRUE
            /\ saveCall' = Some(Val(selectedFunction))
            /\ UNCHANGED toast
  /\ UNCHANGED <<storeVars, payloadValid, jsonError, isRunning, runMessage,
                 activeTab, runStatus, runLogs, runResult, runDurationMs,
                 isDeleting, refVars, envVars, session, staleAge>>

\* ids the registry assigns: positive and not in use
ServerIds ==
  (Len(initialFunctions) + 1)..(Len(initialFunctions) + MaxListDrafts)

\* FunctionDetail answered by createFunction for the draft sent
CreateResponses(draft) ==
  { [id |-> id, name |-> draft.name,
     runtime |-> runtimeForLanguage(draft.language), code |-> code] :
      id \in ServerIds \ FnIds(functions),
      code \in {None, Some(draft.code)} }

\* savedFn, lines 641-648
savedFn(draft, res) ==
  [id |-> res.id, name |-> res.name,
   language |-> mapRuntimeToLanguage(Some(res.runtime)),
   code |-> IF IsSome(res.code) THEN Val(res.code) ELSE draft.code]

\* createFunction resolved, lines 641-652 and 660-662
SaveThen(res) ==
  /\ IsSome(saveCall)
  /\ res \in CreateResponses(Val(saveCall))
  /\ LET draft == Val(saveCall)
         fn == savedFn(draft, res)
         st == setSelected(
                 upsertFunction(removeFunction(Store, draft.id), fn), fn.id)
     IN  /\ functions' = st.functions
         /\ selectedId' = st.selectedId
  /\ toast' = Some([type |-> "success", message |-> "MSG_SAVED"])
  /\ isSaving' = FALSE
  /\ saveCall' = None
  /\ UNCHANGED <<draftCounter, payloadValid, jsonError, isRunning, runMessage,
                 activeTab, runStatus, runLogs, runResult, runDurationMs,
                 isDeleting, refVars, envVars, session, staleAge>>

\* handleSave whose catch block also removes the draft
SaveCatchDropsDraft(err) ==
  /\ IsSome(saveCall)
  /\ functions' = removeFunction(Store, Val(saveCall).id).functions
  /\ selectedId' = removeFunction(Store, Val(saveCall).id).selectedId
  /\ toast' = Some([type |-> "error", message |-> "MSG_SAVE_FAILED",
                    detail |-> err])
  /\ isSaving' = FALSE
  /\ saveCall' = None
  /\ UNCHANGED <<draftCounter, payloadValid, jsonError, isRunning, runMessage,
                 activeTab, runStatus, runLogs, runResult, runDurationMs,
                 isDeleting, refVars, envVars, session, staleAge>>

\* createFunction rejected or timed out, lines 653-662
SaveCatch(err) ==
  /\ IsSome(saveCall)
  /\ toast' = Some([type |-> "error", message |-> "MSG_SAVE_FAILED",
                    detail |-> err])
  /\ isSaving' = FALSE
  /\ saveCall' = None
  /\ UNCHANGED <<storeVars, payloadValid, jsonError, isRunning, runMessage,
                 activeTab, runStatus, runLogs, runResult, runDurationMs,
                 isDeleting, refVars, envVars, session, staleAge>>

\* what handleDelete does once the function is gone, lines 670-678, 684-692
AfterRemoval(id, message) ==
  LET st == removeFunction(Store, id) IN
  /\ functions' = st.functions
  /\ selectedId' = st.selectedId
  /\ clearPoll
  /\ runStatus' = "idle"
  /\ runLogs' = <<>>
  /\ runResult' = <<>>
  /\ runDurationMs' = None
  /\ runMessage' = None
  /\ payloadValid' = TRUE
  /\ toast' = Some([type |-> "success", message |-> message])
  /\ session' = None

\* handleDelete, lines 665-703, after the user confirmed the dialog
handleDelete ==
  /\ ~isDeleting
  /\ selectedFunction # None
  /\ IF Val(selectedFunction).id < 0
       THEN /\ AfterRemoval(Val(selectedFunction).id, "MSG_DRAFT_DELETED")
            /\ UNCHANGED <<isDeleting, deleteCall>>
       ELSE /\ isDeleting' = TRUE
            /\ deleteCall' = Some([fn |-> Val(selectedFunction).id, age |-> 0])
            /\ UNCHANGED <<functions, selectedId, runStatus, runLogs,
                           runResult, runDurationMs, runMessage, payloadValid,
                           toast, refVars, intervals, timeouts, session>>
  /\ UNCHANGED <<draftCounter, jsonError, isRunning, activeTab, invokeCalls,
                 pollCalls, runCount>>
  /\ ElapsedKept

\* deleteFunction resolved, lines 684-692 and 701
DeleteThen ==
  /\ IsSome(deleteCall)
  /\ Val(deleteCall).age < REQUEST_TIMEOUT_S
  /\ AfterRemoval(Val(deleteCall).fn, "MSG_DELETED")
  /\ isDeleting' = FALSE
  /\ deleteCall' = None
  /\ UNCHANGED <<draftCounter, jsonError, isRunning, activeTab, invokeCalls,
                 pollCalls, runCount>>
  /\ ElapsedKept

\* handleDelete whose catch block removes the function all the same
DeleteCatchRemoves(err) ==
  /\ IsSome(deleteCall)
  /\ functions' = removeFunction(Store, Val(deleteCall).fn).functions
  /\ selectedId' = removeFunction(Store, Val(deleteCall).fn).selectedId
  /\ toast' = Some([type |-> "error", message |-> err])
  /\ isDeleting' = FALSE
  /\ deleteCall' = None
  /\ UNCHANGED <<draftCounter, payloadValid, jsonError, isRunning, runMessage,
                 activeTab, runStatus, runLogs, runResult, runDurationMs,
                 refVars, intervals, timeouts, invokeCalls, pollCalls,
                 runCount, elapsed, session, staleAge>>

\* deleteFunction rejected, lines 693-701
DeleteCatch(err) ==
  /\ IsSome(deleteCall)
  /\ toast' = Some([type |-> "error", message |-> err])
  /\ isDeleting' = FALSE
  /\ deleteCall' = None
  /\ UNCHANGED <<storeVars, payloadValid, jsonError, isRunning, runMessage,
                 activeTab, runStatus, runLogs, runResult, runDurationMs,
                 refVars, intervals, timeouts, invokeCalls, pollCalls,
                 runCount, elapsed, session, staleAge>>

\* the toast effect's timer, lines 532-536
ToastExpire ==
  /\ IsSome(toast)
  /\ toast' = None
  /\ UNCHANGED <<storeVars, payloadValid, jsonError, isRunning, runMessage,
                 activeTab, runStatus, runLogs, runResult, runDurationMs,
                 isDeleting, refVars, envVars, session, staleAge>>

-----------------------------------------------------------------------------
(* One second passes.  Every callback that is due and every call that has  *)
(* reached its deadline runs before the next second.                       *)

Tick ==
  /\ \/ DOMAIN intervals # {}
     \/ DOMAIN timeouts # {}
     \/ DOMAIN invokeCalls # {}
     \/ pollCalls # {}
     \/ IsSome(deleteCall)
  /\ \A k \in DOMAIN intervals : ~intervals[k].due
  /\ \A k \in DOMAIN timeouts : timeouts[k] > 0
  /\ \A k \in DOMAIN invokeCalls : invokeCalls[k].age < Deadline
  /\ \A c \in pollCalls : c.age < Deadline
  /\ IsSome(deleteCall) => Val(deleteCall).age < Deadline
  /\ staleAge < MaxStale
  /\ intervals' = [k \in DOMAIN intervals |-> [intervals[k] EXCEPT !.due = TRUE]]
  /\ timeouts' = [k \in DOMAIN timeouts |-> timeouts[k] - 1]
  /\ invokeCalls' = [k \in DOMAIN invokeCalls |->
                       [invokeCalls[k] EXCEPT !.age = @ + 1]]
  /\ pollCalls' = {[c EXCEPT !.age = @ + 1] : c \in pollCalls}
  /\ deleteCall' = IF IsSome(deleteCall)
                     THEN Some([Val(deleteCall) EXCEPT !.age = @ + 1])
                     ELSE None
  /\ elapsed' = [k \in DOMAIN elapsed |-> elapsed[k] + 1]
  /\ staleAge' = IF StaleRuns(DOMAIN elapsed, session) # {} THEN staleAge + 1
                 ELSE 0
  /\ UNCHANGED <<storeVars, uiVars, refVars, runCount, session>>

-----------------------------------------------------------------------------
\* the create form's language is left at its initial value
FormLanguages == {"python"}
Runs == 1..MaxRuns

\* The protocol: Run and Reset, the timers and the backend's answers
Next ==
  \/ handleRun /\ Keep
  \/ \E k \in Runs : RunTimeout(k) /\ Keep
  \/ \E k \in Runs, res \in InvokeResponses : InvokeThen(k, res) /\ Keep
  \/ \E k \in Runs, err \in GatewayErrors : InvokeCatch(k, err) /\ Keep
  \/ \E k \in Runs : PollTick(k) /\ Keep
  \/ \E c \in pollCalls, res \in PollResponses : PollThen(c, res) /\ Keep
  \/ \E c \in pollCalls, err \in GatewayErrors : PollCatch(c, err) /\ Keep
  \/ Reset /\ Keep
  \/ Tick /\ Keep

Spec == Init /\ [][Next]_vars

\* Polling: as the protocol, the backend answering polls with every shape of
\* response
NextPoll ==
  \/ handleRunWithin(MaxSoloRuns) /\ Keep
  \/ \E k \in Runs : RunTimeout(k) /\ Keep
  \/ \E k \in Runs, res \in InvokeResponses : InvokeThen(k, res) /\ Keep
  \/ \E k \in Runs, err \in GatewayErrors : InvokeCatch(k, err) /\ Keep
  \/ \E k \in Runs : PollTick(k) /\ Keep
  \/ \E c \in pollCalls, res \in PollResponsesAll : PollThen(c, res) /\ Keep
  \/ \E c \in pollCalls, err \in GatewayErrors : PollCatch(c, err) /\ Keep
  \/ Reset /\ Keep
  \/ Tick /\ Keep

SpecPoll == Init /\ [][NextPoll]_vars

\* Submitting: as the protocol, one run per session, the backend answering
\* the submit call with every shape of response
NextSubmit ==
  \/ handleRunWithin(MaxSoloRuns) /\ Keep
  \/ \E k \in Runs : RunTimeout(k) /\ Keep
  \/ \E k \in Runs, res \in InvokeResponsesAll : InvokeThen(k, res) /\ Keep
  \/ \E k \in Runs, err \in GatewayErrors : InvokeCatch(k, err) /\ Keep
  \/ \E k \in Runs : PollTick(k) /\ Keep
  \/ \E c \in pollCalls, res \in PollResponses : PollThen(c, res) /\ Keep
  \/ \E c \in pollCalls, err \in GatewayErrors : PollCatch(c, err) /\ Keep
  \/ Reset /\ Keep
  \/ Tick /\ Keep

SpecSubmit == Init /\ [][NextSubmit]_vars

\* Long runs: as the protocol, the backend also answering polls with a second
\* status in flight, so that a run can stay pending until a timer ends it
PollResponsesLong ==
  { Resp(None, Some(R_PROCESSING), None, None, None, None),
    Resp(None, Some(R_queued), None, None, None, None),
    Resp(None, Some(R_success), Some("r1"), None, Some(842), None) }

NextLong ==
  \/ handleRun /\ Keep
  \/ \E k \in Runs : RunTimeout(k) /\ Keep
  \/ \E k \in Runs, res \in InvokeResponses : InvokeThen(k, res) /\ Keep
  \/ \E k \in Runs, err \in GatewayErrors : InvokeCatch(k, err) /\ Keep
  \/ \E k \in Runs : PollTick(k) /\ Keep
  \/ \E c \in pollCalls, res \in PollResponsesLong : PollThen(c, res) /\ Keep
  \/ \E c \in pollCalls, err \in GatewayErrors : PollCatch(c, err) /\ Keep
  \/ Reset /\ Keep
  \/ Tick /\ Keep

SpecLong == Init /\ [][NextLong]_vars

\* The console: the protocol with the payload editor, the create form and the
\* delete button
NextConsole ==
  \/ handleRunWithin(MaxSoloRuns) /\ Keep
  \/ \E k \in Runs : RunTimeout(k) /\ Keep
  \/ \E k \in Runs, res \in InvokeResponses : InvokeThen(k, res) /\ Keep
  \/ \E k \in Runs, err \in GatewayErrors : InvokeCatch(k, err) /\ Keep
  \/ \E k \in Runs : PollTick(k) /\ Keep
  \/ \E c \in pollCalls, res \in PollResponses : PollThen(c, res) /\ Keep
  \/ \E c \in pollCalls, err \in GatewayErrors : PollCatch(c, err) /\ Keep
  \/ Reset /\ Keep
  \/ \E valid \in BOOLEAN : handlePayloadChange(valid) /\ Keep
  \/ \E lang \in FormLanguages : handleCreateFunction(lang) /\ Keep
  \/ handleDelete /\ Keep
  \/ DeleteThen /\ Keep
  \/ \E err \in GatewayErrors : DeleteCatch(err) /\ Keep
  \/ ToastExpire /\ Keep
  \/ Tick /\ Keep

SpecConsole == Init /\ [][NextConsole]_vars

\* The function list: create, select, save and delete, with no run started
KeepProbe == UNCHANGED <<probeVars, effectVars, gestures>>

NextDraft ==
  \/ \E lang \in FormLanguages :
       handleCreateFunctionWithin(MaxListDrafts, lang) /\ Keep
  \/ \E id \in FnIds(functions) : handleSelectFunction(id) /\ KeepProbe
  \/ handleSave /\ KeepProbe
  \/ \E res \in UNION {CreateResponses(d) : d \in OptSet(saveCall)} :
       SaveThen(res) /\ KeepProbe
  \/ \E err \in GatewayErrors : SaveCatch(err) /\ KeepProbe
  \/ handleDelete /\ Keep
  \/ DeleteThen /\ Keep
  \/ \E err \in GatewayErrors : DeleteCatch(err) /\ Keep
  \/ ToastExpire /\ Keep

SpecDraft == Init /\ [][NextDraft]_vars

-----------------------------------------------------------------------------
(* The function list with the effects of Home: the list load, the details of
   the selected function, the history tab, the editor and the language
   selector *)

Languages == {"python", "node", "go"}

\* what the user types into the editor, and the code the registry holds
EditedCode == <<"edited">>
ServerCode == <<"server">>

\* the effects that depend on selectedFunction and activeTab, run after a
\* render; changed: the selected entry is another object than before.
\* getFunction effect, lines 906-940; listInvocations effect, lines 942-969
RenderEffects(changed) ==
  LET after == FindFn(functions', selectedId')
      onServer == after # None /\ Val(after).id >= 0
  IN
  /\ IF ~changed
       THEN UNCHANGED <<lastFetchedFunctionId, detailCall>>
       ELSE IF onServer /\ lastFetchedFunctionId # Some(Val(after).id)
         THEN /\ lastFetchedFunctionId' = Some(Val(after).id)
              /\ detailCall' = Some(Val(after).id)
         ELSE /\ detailCall' = None
              /\ UNCHANGED lastFetchedFunctionId
  /\ IF ~changed /\ activeTab' = activeTab
       THEN UNCHANGED <<historyCall, historyVars>>
       ELSE \* the cleanup cancels the call listened to; its answer is still
            \* to come
            /\ staleHistoryCall' = IF IsSome(historyCall) THEN historyCall
                                   ELSE staleHistoryCall
            /\ IF activeTab' = "history" /\ onServer
                 THEN /\ historyCall' =
                           Some([fn |-> Val(after).id,
                                 nth |-> IF IsSome(historyCall)
                                           THEN 1 - Val(historyCall).nth
                                         ELSE IF IsSome(staleHistoryCall)
                                           THEN 1 - Val(staleHistoryCall).nth
                                         ELSE 0])
                      /\ historyError' = None
                      /\ historyLoading' = TRUE
                      /\ historyRows' = <<>>
                 ELSE /\ historyCall' = None
                      /\ UNCHANGED <<historyRows, historyError,
                                     historyLoading>>

\* the selected entry is another one, or has other contents, than before
SelectionChanged == FindFn(functions', selectedId') # selectedFunction

KeepList == UNCHANGED <<probeVars, listCall>>
KeepListSave == UNCHANGED <<saveVars, probeVars, listCall>>
KeepEffects == UNCHANGED <<probeVars, effectVars>>

\* the step is a gesture of the user; the step is an answer of the backend
Gesture == gestures < MaxGestures /\ gestures' = gestures + 1
Answer == UNCHANGED gestures

\* the editor's onChange, line 1184: setCode(value ?? "")
handleCodeChange(code) ==
  /\ functions' = setCode(Store, code).functions
  /\ UNCHANGED <<selectedId, draftCounter, uiVars, refVars, envVars, session,
                 staleAge>>

\* handleLanguageChange, lines 574-576
handleLanguageChange(lang) ==
  /\ functions' = changeLanguage(Store, lang).functions
  /\ UNCHANGED <<selectedId, draftCounter, uiVars, refVars, envVars, session,
                 staleAge>>

\* the Output and History buttons, lines 1268 and 1280
setActiveTab(tab) ==
  /\ activeTab' = tab
  /\ UNCHANGED <<storeVars, payloadValid, jsonError, isRunning, runMessage,
                 runStatus, runLogs, runResult, runDurationMs, isDeleting,
                 toast, refVars, envVars, session, staleAge>>

\* lists the registry is taken to answer to listFunctions, already mapped
\* (lines 545-554): nothing, or two functions
ServerLists ==
  { <<>>, << Fn(2, "image-resizer", "node"), Fn(1, "ingest-events", "go") >> }

\* loadFunctions after await listFunctions(), lines 543-558
LoadThen(mapped) ==
  /\ listCall
  /\ listCall' = FALSE
  /\ IF Len(mapped) > 0
       THEN /\ functions' = setFunctions(Store, mapped).functions
            /\ selectedId' = setFunctions(Store, mapped).selectedId
       ELSE UNCHANGED <<functions, selectedId>>
  /\ UNCHANGED <<draftCounter, uiVars, refVars, envVars, session, staleAge,
                 saveVars, probeVars>>
  /\ RenderEffects(Len(mapped) > 0)

\* loadFunctions: catch, lines 559-561
LoadCatch ==
  /\ listCall
  /\ listCall' = FALSE
  /\ UNCHANGED <<storeVars, uiVars, refVars, envVars, session, staleAge,
                 saveVars, probeVars, lastFetchedFunctionId, detailCall,
                 historyCall, historyVars>>

\* FunctionDetail answered by getFunction
DetailResponses ==
  { [runtime |-> runtimeForLanguage(lang), code |-> code,
     sample_event |-> sample] :
      lang \in {"python", "node"}, code \in {None, Some(ServerCode)},
      sample \in BOOLEAN }

\* getFunction(...).then, lines 913-933
DetailThen(detail) ==
  /\ IsSome(detailCall)
  /\ LET id == Val(detailCall)
         merged == mergeFunction(Store, id,
                     mapRuntimeToLanguage(Some(detail.runtime)),
                     IF IsSome(detail.code) THEN Val(detail.code)
                     ELSE Val(selectedFunction).code)
         \* if (detail.code): a code that is present and not empty
         st == IF IsSome(detail.code) /\ Len(Val(detail.code)) > 0
                 THEN setCode(merged, Val(detail.code))
               ELSE merged
     IN  /\ functions' = st.functions
         /\ selectedId' = st.selectedId
  /\ IF detail.sample_event
       THEN payloadValid' = TRUE /\ jsonError' = FALSE
       ELSE UNCHANGED <<payloadValid, jsonError>>
  /\ UNCHANGED <<draftCounter, isRunning, runMessage, activeTab, runStatus,
                 runLogs, runResult, runDurationMs, isDeleting, toast,
                 refVars, envVars, session, staleAge, saveVars, probeVars,
                 listCall>>
  /\ RenderEffects(TRUE)

\* getFunction(...).catch, lines 934-936
DetailCatch ==
  /\ IsSome(detailCall)
  /\ detailCall' = None
  /\ UNCHANGED <<storeVars, uiVars, refVars, envVars, session, staleAge,
                 saveVars, probeVars, lastFetchedFunctionId, listCall,
                 historyCall, historyVars>>

\* the listInvocations calls whose answer is still to come
HistoryCalls == OptSet(historyCall) \cup OptSet(staleHistoryCall)

\* rows the registry is taken to answer to listInvocations: none, or one row
\* of the function asked for (request tells the calls apart)
HistoryAnswers(call) ==
  {<<>>, <<[function_id |-> call.fn, request |-> call.nth]>>}

\* the cancelled flag that is never set
cancelledNever(call) == FALSE

\* the cancelled flag of the effect run that sent the call, lines 946, 966-968
cancelled(call) == historyCall # Some(call)

HistoryFrame ==
  UNCHANGED <<storeVars, uiVars, refVars, envVars, session, staleAge,
              saveVars, probeVars, lastFetchedFunctionId, listCall,
              detailCall>>

\* the call has settled
HistoryCallsWithout(call) ==
  /\ historyCall' = IF historyCall = Some(call) THEN None ELSE historyCall
  /\ staleHistoryCall' = IF staleHistoryCall = Some(call) THEN None
                         ELSE staleHistoryCall

\* listInvocations(...).then and .finally, lines 951-954 and 962-964
HistoryThen(call, rows) ==
  /\ call \in HistoryCalls
  /\ IF cancelled(call)
       THEN UNCHANGED <<historyRows, historyError, historyLoading>>
       ELSE /\ historyRows' = rows
            /\ historyLoading' = FALSE
            /\ UNCHANGED historyError
  /\ HistoryCallsWithout(call)
  /\ HistoryFrame

\* listInvocations(...).catch and .finally, lines 955-964
HistoryCatch(call, err) ==
  /\ call \in HistoryCalls
  /\ IF cancelled(call)
       THEN UNCHANGED <<historyRows, historyError, historyLoading>>
       ELSE /\ historyError' = Some(err)
            /\ historyRows' = <<>>
            /\ historyLoading' = FALSE
  /\ HistoryCallsWithout(call)
  /\ HistoryFrame

\* the gestures and the answers with the render that follows them
ListSelect(id) ==
  /\ handleSelectFunction(id)
  /\ RenderEffects(SelectionChanged) /\ KeepList /\ Gesture
ListCreate(lang) ==
  handleCreateFunction(lang) /\ RenderEffects(TRUE) /\ KeepListSave /\ Gesture
ListEdit(code) ==
  /\ handleCodeChange(code)
  /\ RenderEffects(SelectionChanged) /\ KeepListSave /\ Gesture
ListLanguage(lang) ==
  /\ handleLanguageChange(lang)
  /\ RenderEffects(SelectionChanged) /\ KeepListSave /\ Gesture
ListTab(tab) ==
  setActiveTab(tab) /\ RenderEffects(FALSE) /\ KeepListSave /\ Gesture
ListSave == handleSave /\ KeepEffects /\ Gesture
ListSaveThen(res) ==
  SaveThen(res) /\ RenderEffects(TRUE) /\ KeepList /\ Answer
ListSaveCatch(err) == SaveCatch(err) /\ KeepEffects /\ Answer
ListDelete ==
  handleDelete /\ RenderEffects(SelectionChanged) /\ KeepListSave /\ Gesture
ListDeleteThen ==
  DeleteThen /\ RenderEffects(SelectionChanged) /\ KeepListSave /\ Answer

NextList ==
  \/ \E mapped \in ServerLists : LoadThen(mapped) /\ Answer
  \/ LoadCatch /\ Answer
  \/ \E detail \in DetailResponses : DetailThen(detail) /\ Answer
  \/ DetailCatch /\ Answer
  \/ \E call \in HistoryCalls : \E rows \in HistoryAnswers(call) :
       HistoryThen(call, rows) /\ Answer
  \/ \E call \in HistoryCalls, err \in GatewayErrors :
       HistoryCatch(call, err) /\ Answer
  \/ \E id \in FnIds(functions) : ListSelect(id)
  \/ \E lang \in FormLanguages : ListCreate(lang)
  \/ ListEdit(EditedCode)
  \/ \E lang \in Languages : ListLanguage(lang)
  \/ \E tab \in {"output", "history"} : ListTab(tab)
  \/ ListSave
  \/ \E res \in UNION {CreateResponses(d) : d \in OptSet(saveCall)} :
       ListSaveThen(res)
  \/ \E err \in GatewayErrors : ListSaveCatch(err)
  \/ ListDelete
  \/ ListDeleteThen
  \/ \E err \in GatewayErrors : DeleteCatch(err) /\ Keep

SpecList == Init /\ [][NextList]_vars

-----------------------------------------------------------------------------
(* The status functions on their own: a response of any shape is normalized
   and classified once, as the poll callback does at lines 809-815 *)

UpperOf(c) ==
  IF \E i \in 1..26 : LowerLetters[i] = c
    THEN UpperLetters[CHOOSE i \in 1..26 : LowerLetters[i] = c]
    ELSE c

toUpperCase(s) == [i \in 1..Len(s) |-> UpperOf(s[i])]
Capitalize(s) ==
  [i \in 1..Len(s) |-> IF i = 1 THEN UpperOf(s[i]) ELSE s[i]]

\* the keywords of normalizeStatus, a word with none of them, and no word
StatusWords ==
  {S_queue, S_process, S_run, S_success, S_complete, S_done, S_fail, S_error,
   R_pending, <<>>}

\* one word or two words in a row
StatusTexts == {w1 \o w2 : w1 \in StatusWords, w2 \in StatusWords}

CaseVariants(t) == {t, toUpperCase(t), Capitalize(t)}

\* status?: string, in lower case, upper case and capitalized
RawStatuses ==
  {None} \cup {Some(v) : v \in UNION {CaseVariants(t) : t \in StatusTexts}}

\* result?: absent, null, the empty object, an object with content
ProbeResults == {None, Some("null"), Some("{}"), Some("r1")}
\* error_message?: absent, the empty string, a message
ProbeErrors == {None, Some(""), Some("E1")}

ProbeResponses ==
  { Resp(None, st, res, err, None, None) :
      st \in RawStatuses, res \in ProbeResults, err \in ProbeErrors }

InitStatus == InitHome /\ probeIn \in ProbeResponses /\ probeOut = NoProbe

Observe ==
  /\ probeOut = NoProbe
  /\ probeOut' = [normalized |-> normalizeStatus(probeIn.status),
                  polled |-> PolledStatus(probeIn)]
  /\ UNCHANGED <<storeVars, uiVars, refVars, envVars, session, staleAge,
                 saveVars, probeIn, effectVars, gestures, request>>

NextStatus == Observe

SpecStatus == InitStatus /\ [][NextStatus]_vars

-----------------------------------------------------------------------------
(* The function store on its own: the operations of useFunctionStore applied
   in any order to the initial list, with ids in and out of the list. *)

\* ids handed to the operations: those of the initial list and a draft id
StoreIds == FnIds(initialFunctions) \cup {-1}

\* entries handed to upsertFunction
StoreEntries ==
  {Fn(id, "fn", lang) : id \in StoreIds, lang \in {"python", "node"}}

StoreFrame ==
  UNCHANGED <<draftCounter, uiVars, refVars, envVars, session, staleAge,
              saveVars, probeVars, effectVars, gestures>>

StoreBecomes(st) ==
  /\ functions' = st.functions
  /\ selectedId' = st.selectedId
  /\ StoreFrame

StoreUpsert(fn) ==
  /\ fn.id \in FnIds(functions) \/ Len(functions) < MaxStoreLen
  /\ StoreBecomes(upsertFunction(Store, fn))
StoreRemove(id) == StoreBecomes(removeFunction(Store, id))
StoreMerge(id, language, code) ==
  StoreBecomes(mergeFunction(Store, id, language, code))
StoreSetCode(code) == StoreBecomes(setCode(Store, code))
StoreChangeLanguage(language) == StoreBecomes(changeLanguage(Store, language))
StoreSelect(id) == StoreBecomes(setSelected(Store, id))

NextStore ==
  \/ \E fn \in StoreEntries : StoreUpsert(fn)
  \/ \E id \in StoreIds : StoreRemove(id)
  \/ \E id \in StoreIds : StoreMerge(id, "node", ServerCode)
  \/ StoreSetCode(EditedCode)
  \/ \E language \in {"python", "node"} : StoreChangeLanguage(language)
  \/ \E id \in StoreIds : StoreSelect(id)

SpecStore == Init /\ [][NextStore]_vars

-----------------------------------------------------------------------------
(* apiRequest on its own, src/unnamed/part_000 lines 27-68.  The call is
   followed from setTimeout to the finally block: fetch is pending, then the
   body is being read, then the call has settled.  The abort timer is taken
   to fire in the second in which it is due. *)

\* a body that JSON.parse rejects, and the values JSON.parse returns: an
\* object (with its message member: absent, null or a string), a string,
\* null; pretty is JSON.stringify(value, null, 2)
Malformed == [kind |-> "SyntaxError", message |-> None, str |-> "",
              pretty |-> ""]
JObject(message, pretty) == [kind |-> "object", message |-> message,
                             str |-> "", pretty |-> pretty]
JString(str, pretty) == [kind |-> "string", message |-> None, str |-> str,
                         pretty |-> pretty]
JNull == [kind |-> "null", message |-> None, str |-> "", pretty |-> "null"]

\* response bodies: the text on the wire and what JSON.parse makes of it
Bodies ==
  { [text |-> "", parsed |-> Malformed],
    [text |-> "<h1>Bad Gateway</h1>", parsed |-> Malformed],
    [text |-> "{\"message\":\"boom\"}",
     parsed |-> JObject(Some("boom"), "{\n  \"message\": \"boom\"\n}")],
    [text |-> "{\"message\":null}",
     parsed |-> JObject(Some("null"), "{\n  \"message\": null\n}")],
    [text |-> "{\"code\":7}",
     parsed |-> JObject(None, "{\n  \"code\": 7\n}")],
    [text |-> "\"down\"", parsed |-> JString("down", "\"down\"")],
    [text |-> "null", parsed |-> JNull] }

\* values of the content-type header; the last two include "application/json"
ContentTypes ==
  {None, Some("text/plain"), Some("application/json"),
   Some("application/json; charset=utf-8")}

HttpResponses ==
  { [ok |-> ok, contentType |-> ct, body |-> b] :
      ok \in BOOLEAN, ct \in ContentTypes, b \in Bodies }

\* timeoutMs of the caller, in seconds: left out, or MaxCallerTimeout
CallerTimeouts == {None, Some(MaxCallerTimeout)}

\* lines 47-48: contentType?.includes("application/json")
isJson(contentType) ==
  /\ IsSome(contentType)
  /\ Val(contentType) \in
       {"application/json", "application/json; charset=utf-8"}

\* JSON.stringify(errPayload, null, 2): defined for every value res.json()
\* can resolve with
stringify(payload) == Some(payload.pretty)

\* a ?? b, for a member that is absent (None), null (Some("null")) or a
\* string, and for a text that is undefined (None) or defined
Nullish(member) == member \in {None, Some("null")}
Coalesce(a, b) == IF IsSome(a) THEN a ELSE b

\* lines 50-59: the Error thrown for a response that is not ok, once its
\* body has been parsed
errorMessage(res) ==
  IF ~isJson(res.contentType) THEN res.body.text
  ELSE IF res.body.parsed.kind = "string" THEN res.body.parsed.str
  ELSE IF ~Nullish(res.body.parsed.message)
    THEN Val(res.body.parsed.message)
  ELSE Val(Coalesce(stringify(res.body.parsed), Some("Request failed")))

\* lines 50-62: what the call settles with once the body has arrived;
\* res.json() rejects with a SyntaxError when the body is not JSON
Settle(res) ==
  IF isJson(res.contentType) /\ res.body.parsed.kind = "SyntaxError"
    THEN Thrown("SyntaxError")
  ELSE IF ~res.ok THEN Thrown(errorMessage(res))
  ELSE Returned(res.body)

\* finally without clearTimeout: the abort timer stays armed
finallyKeepsTimer(r) == r

\* lines 63-65: finally { clearTimeout(timeout) }
finally(r) == [r EXCEPT !.timeout = FALSE]

RequestStep ==
  UNCHANGED <<storeVars, uiVars, refVars, envVars, session, staleAge,
              saveVars, probeIn, probeOut, effectVars, gestures>>

\* lines 27-46: the timer is armed and fetch is called
apiRequest(timeoutMs) ==
  /\ request.phase = "idle"
  /\ request' = [request EXCEPT
        !.phase = "fetch",
        !.timeoutS = IF IsSome(timeoutMs) THEN Val(timeoutMs)
                     ELSE REQUEST_TIMEOUT_S,
        !.timeout = TRUE]
  /\ RequestStep

\* line 37: fetch resolves with the response's status and headers
FetchResolves(res) ==
  /\ request.phase = "fetch" /\ ~request.aborted
  /\ request' = [request EXCEPT !.phase = "body", !.res = Some(res)]
  /\ RequestStep

\* line 37: fetch rejects (the network is down)
FetchRejects ==
  /\ request.phase = "fetch" /\ ~request.aborted
  /\ request' = finally([request EXCEPT !.phase = "settled",
                                        !.outcome = Thrown("E_NETWORK")])
  /\ RequestStep

\* lines 50-62: res.json() or res.text() has read the body
BodyArrives ==
  /\ request.phase = "body" /\ ~request.aborted
  /\ request' = finally([request EXCEPT
                           !.phase = "settled",
                           !.outcome = Settle(Val(request.res))])
  /\ RequestStep

\* line 30: the timer's callback, controller.abort()
AbortFires ==
  /\ request.timeout /\ request.age >= request.timeoutS
  /\ request' = [request EXCEPT !.timeout = FALSE, !.aborted = TRUE]
  /\ RequestStep

\* the pending fetch or body read rejects with the signal's AbortError
AbortRejects ==
  /\ request.phase \in {"fetch", "body"} /\ request.aborted
  /\ request' = finally([request EXCEPT !.phase = "settled",
                                        !.outcome = Thrown("AbortError")])
  /\ RequestStep

\* one second passes; a timer that is due fires first
RequestTick ==
  /\ request.phase # "idle"
  /\ request.age <= request.timeoutS
  /\ ~(request.timeout /\ request.age >= request.timeoutS)
  /\ request' = [request EXCEPT !.age = @ + 1]
  /\ RequestStep

NextRequest ==
  \/ \E timeoutMs \in CallerTimeouts : apiRequest(timeoutMs)
  \/ \E res \in HttpResponses : FetchResolves(res)
  \/ FetchRejects
  \/ BodyArrives
  \/ AbortFires
  \/ AbortRejects
  \/ RequestTick

SpecRequest == Init /\ [][NextRequest]_vars

-----------------------------------------------------------------------------
(* Properties of the invocation tracker *)

\* the Run button, where one run is followed
UserRunSolo == handleRunWithin(MaxSoloRuns)

\* a submit response reaches the closures of a run whose session is closed
StaleInvokeThen ==
  \E k \in DOMAIN invokeCalls :
    /\ session # Some(k)
    /\ \E res \in InvokeResponses : InvokeThen(k, res)

\* a poll response reaches the closures of a run whose session is closed
StalePollThen ==
  \E c \in pollCalls :
    /\ session # Some(c.run)
    /\ \E res \in PollResponses : PollThen(c, res)

\* the interval callback of some run sends a get-status call
IssuesGetStatus ==
  \E k \in DOMAIN intervals :
    /\ PollTick(k)
    /\ [run |-> k, age |-> 0] \in pollCalls'

\* a step that appends an [Error] line to the log
AppendsError ==
  /\ Len(runLogs') > Len(runLogs)
  /\ runLogs'[Len(runLogs')].tag = "Error"

\* C1: at most one polling interval exists, and every interval that was
\* started and not cleared is the one pollRef refers to.
C1_OneIntervalInPollRef ==
  /\ Cardinality(DOMAIN intervals) <= 1
  /\ \A k \in DOMAIN intervals : pollRef = Some(k)

\* C2: a submit or poll response that arrives after its session was closed
\* changes neither status, result, duration, logs, isRunning nor any timer.
C2_StaleResponseDiscarded ==
  [][StaleInvokeThen \/ StalePollThen =>
       UNCHANGED <<runStatus, runResult, runDurationMs, runLogs, isRunning,
                   intervals, timeouts>>]_vars

\* C3: a status of success or fail changes only by Run, to queued, or by
\* Reset, to idle.
C3_TerminalStatusStays ==
  [][IsTerminal(runStatus) /\ runStatus' # runStatus =>
       \/ UserRunSolo /\ runStatus' = "queued"
       \/ Reset /\ runStatus' = "idle"]_vars

\* C4: once the status is success, fail or idle, no get-status call is sent.
C4_NoPollAfterEnd ==
  [][(runStatus \in {"success", "fail", "idle"}) => ~IssuesGetStatus]_vars

\* C5: no polling interval is active while the status is success, fail or
\* idle.
C5_NoIntervalWhenEnded ==
  runStatus \in {"success", "fail", "idle"} => DOMAIN intervals = {}

\* the missing-id failure is on display
MissingIdShown ==
  /\ runStatus = "fail"
  /\ runMessage = Text("MSG_INVOCATION_ID_MISSING")

\* C6: after a submit response without invocation id, status fail and the
\* missing-id message stay until the user presses Run or Reset.
C6_MissingIdIsFinal ==
  [][(MissingIdShown /\ ~(UserRunSolo \/ Reset)) =>
       (MissingIdShown' /\ runLogs' = runLogs)]_vars

\* C7: a step that ends a run with an error leaves status fail, no polling
\* interval and no run timeout armed, and the counters reset.
C7_ErrorLeavesNothingArmed ==
  [][AppendsError =>
       /\ runStatus' = "fail"
       /\ ~isRunning'
       /\ pollRef' = None
       /\ runTimeoutRef' = None
       /\ DOMAIN timeouts' = {}
       /\ pollAttemptsRef' = 0
       /\ stuckCountRef' = 0
       /\ lastStatusRef' = None]_vars

NoCallSent == invokeCalls' = invokeCalls /\ pollCalls' = pollCalls

NoSelection == selectedFunction = None
DraftSelected == selectedFunction # None /\ Val(selectedFunction).id < 0
PayloadNotJson ==
  /\ selectedFunction # None
  /\ Val(selectedFunction).id >= 0
  /\ ~payloadValid

\* C8: Run with no selected function, with a draft selected or with a payload
\* that is not JSON sends neither an invoke nor a get-status call, and reports
\* the select-a-function message, the save-first message or the JSON error.
C8_RejectedRunSendsNothing ==
  [][UserRunSolo =>
       /\ (NoSelection =>
             (NoCallSent /\ runMessage' = Text("MSG_SELECT_FUNCTION")))
       /\ (DraftSelected =>
             (NoCallSent /\ runMessage' = Text("MSG_SAVE_BEFORE_RUN")))
       /\ (PayloadNotJson => (NoCallSent /\ jsonError'))]_vars

C8_Witness ==
  /\ selectedFunction = None
  /\ runMessage = Text("MSG_SELECT_FUNCTION")
  /\ invokeCalls = EmptyMap

\* C9: a rejected Run leaves status, logs, result, duration, isRunning, the
\* polling interval, the run timeout and the counters as they were; nothing
\* but runMessage or jsonError changes.
C9_RejectedRunKeepsTracker ==
  [][(UserRunSolo /\ (NoSelection \/ DraftSelected \/ PayloadNotJson)) =>
       /\ UNCHANGED <<runStatus, runLogs, runResult, runDurationMs,
                      isRunning, pollRef, intervals, runTimeoutRef,
                      timeouts, pollAttemptsRef, stuckCountRef,
                      lastStatusRef>>
       /\ UNCHANGED <<storeVars, payloadValid, activeTab, isDeleting, toast,
                      invokeCalls, pollCalls, deleteCall, runCount>>]_vars

C9_Witness ==
  /\ selectedFunction # None
  /\ Val(selectedFunction).id < 0
  /\ runMessage = Text("MSG_SAVE_BEFORE_RUN")
  /\ IsSome(pollRef)
  /\ runStatus = "processing"

\* C10: on a poll response whose status is queued or processing, the repeat
\* count becomes the old count plus one when the status equals the last one
\* observed and 0 otherwise; the run fails with the no-change message when
\* that count is 30, and goes on with the polled status when it is less; the
\* count never passes 30.
C10_StuckExactlyAtBound ==
  [][\A c \in pollCalls, res \in PollResponsesAll :
       LET polled == PolledStatusOf[res]
           repeat == IF lastStatusRef = Some(polled) THEN stuckCountRef + 1
                     ELSE 0
       IN  (PollThen(c, res) /\ polled \in {"queued", "processing"}) =>
             /\ repeat <= 30
             /\ (repeat = 30 =>
                   /\ runStatus' = "fail"
                   /\ runMessage' = Text("MSG_STUCK")
                   /\ ~isRunning'
                   /\ DOMAIN intervals' = DOMAIN intervals \ OptSet(pollRef)
                   /\ pollRef' = None)
             /\ (repeat < 30 =>
                   /\ runStatus' = polled
                   /\ runMessage' = runMessage
                   /\ stuckCountRef' = repeat
                   /\ lastStatusRef' = Some(polled)
                   /\ pollRef' = pollRef)]_vars

C10_Witness ==
  /\ runStatus = "fail"
  /\ runMessage = Text("MSG_STUCK")
  /\ pollRef = None

\* a timer callback of some run: its run timeout or a tick of its interval
TimerStep == \E k \in Runs : RunTimeout(k) \/ PollTick(k)

\* C11: a run that is polling and is ended by a timer is ended by the tick on
\* which the attempt count reaches 60: status fail, the polling-timeout
\* message, the session closed and no get-status call sent on that tick.
C11_CapEndsPollingRun ==
  [][(isRunning /\ IsSome(pollRef) /\ TimerStep /\ ~isRunning') =>
       /\ pollAttemptsRef + 1 = MAX_POLL_ATTEMPTS
       /\ runStatus' = "fail"
       /\ runMessage' = Text("MSG_POLL_TIMEOUT")
       /\ pollRef' = None
       /\ pollCalls' = pollCalls]_vars

\* the run is pending: Run was accepted and no outcome is on display
RunPending == isRunning /\ runStatus \in {"queued", "processing"}

\* C12: when the run timeout fires on a pending run, the run fails with the
\* run-timeout message and no interval and no submit call is left that could
\* send a get-status call before the next Run.
C12_RunTimeoutEndsPendingRun ==
  [][\A k \in Runs :
       (RunPending /\ RunTimeout(k)) =>
         /\ runStatus' = "fail"
         /\ ~isRunning'
         /\ runMessage' = Text("MSG_RUN_TIMEOUT")
         /\ runLogs' = Append(runLogs, LogError(Text("MSG_RUN_TIMEOUT")))
         /\ pollRef' = None
         /\ DOMAIN intervals' = {}
         /\ DOMAIN invokeCalls' = {}
         /\ DOMAIN timeouts' = {}]_vars

C12_Witness ==
  /\ runStatus = "fail"
  /\ runMessage = Text("MSG_RUN_TIMEOUT")
  /\ Len(runLogs) = 3
  /\ runLogs[2].tag = "Invoke"
  /\ runLogs[3] = LogError(Text("MSG_RUN_TIMEOUT"))
  /\ DOMAIN intervals = {}

\* C13: when a get-status call rejects, the run fails in that step with the
\* error's message in the run message and in the log, and no polling interval
\* and no run timeout is left.
C13_PollRejectionEndsPolling ==
  [][\A c \in pollCalls, err \in GatewayErrors :
       PollCatch(c, err) =>
         /\ runStatus' = "fail"
         /\ ~isRunning'
         /\ runMessage' = TextWith("MSG_POLL_FAILED", err)
         /\ runLogs' = Append(runLogs, LogError(Text(err)))
         /\ DOMAIN intervals' = {}
         /\ DOMAIN timeouts' = {}]_vars

\* C14: of the get-status calls of one poll session at most one is in flight.
C14_OnePollInFlight ==
  \A k \in Runs : Cardinality({c \in pollCalls : c.run = k}) <= 1

\* the outcome of a successful poll is on display and the run is torn down
PolledSuccessShown(r, d) ==
  /\ runStatus = "success" /\ ~isRunning
  /\ runResult = Stringify(r) /\ runDurationMs = Some(d)
  /\ pollRef = None /\ runTimeoutRef = None

\* a get-status call rejects
PollRejects == \E c \in pollCalls, err \in GatewayErrors : PollCatch(c, err)

\* C17: when a poll answers success with result r and duration d, the tracker
\* shows success, r and d with the poll session and the run timeout torn down;
\* as long as no poll rejects and the user presses neither Run nor Reset it
\* stays so, and no further get-status call is sent.
C17_PolledSuccessIsFinal ==
  [][\A r \in {"r1"}, d \in {842} :
       /\ \A c \in pollCalls, res \in PollResponsesAll :
            (/\ PollThen(c, res)
             /\ PolledStatusOf[res] = "success"
             /\ res.result = Some(r) /\ res.duration_ms = Some(d)) =>
              PolledSuccessShown(r, d)'
       /\ (PolledSuccessShown(r, d) /\ ~(UserRunSolo \/ Reset \/ PollRejects)) =>
            (PolledSuccessShown(r, d)' /\ ~IssuesGetStatus)]_vars

\* C18: right after Reset the status is idle, isRunning is false, logs,
\* result, duration and run message are empty, no polling interval and no run
\* timeout is left armed, and the attempt counter, the repeat counter and the
\* last observed status are reset.
C18_ResetClearsEverything ==
  [][Reset =>
       /\ runStatus' = "idle" /\ ~isRunning'
       /\ runLogs' = <<>> /\ runResult' = <<>>
       /\ runDurationMs' = None /\ runMessage' = None
       /\ pollRef' = None /\ runTimeoutRef' = None
       /\ DOMAIN intervals' = {} /\ DOMAIN timeouts' = {}
       /\ pollAttemptsRef' = 0 /\ stuckCountRef' = 0
       /\ lastStatusRef' = None]_vars

-----------------------------------------------------------------------------
(* Properties of saving a draft *)

\* position of the entry with this id in the list, 0 when there is none
IndexOf(fns, id) ==
  IF id \in FnIds(fns) THEN CHOOSE i \in 1..Len(fns) : fns[i].id = id ELSE 0

\* the create call that is in flight was sent for a draft still in the list
DraftInList == IsSome(saveCall) /\ Val(saveCall).id \in FnIds(functions)

\* C19: when the save of a draft succeeds, the list afterwards is the list
\* before with the draft's entry replaced in place by the server's entry:
\* same index, same length, the other entries untouched, the draft id gone,
\* and the server's id selected.
C19_SavedDraftReplacedInPlace ==
  [][\A res \in UNION {CreateResponses(d) : d \in OptSet(saveCall)} :
       (DraftInList /\ SaveThen(res)) =>
         LET draftId == Val(saveCall).id
             i == IndexOf(functions, draftId)
         IN  /\ Len(functions') = Len(functions)
             /\ functions'[i] = savedFn(Val(saveCall), res)
             /\ \A j \in (1..Len(functions)) \ {i} :
                  functions'[j] = functions[j]
             /\ draftId \notin FnIds(functions')
             /\ selectedId' = Some(res.id)]_vars

\* no id occurs twice in the list
NoDuplicateIds(fns) ==
  \A i, j \in 1..Len(fns) : (fns[i].id = fns[j].id) => (i = j)

\* C20: when the save of a draft fails, the failure handler changes neither
\* the list nor the selection: a draft that was in the list is still there
\* with the id, name, language and code that were sent, no entry is added or
\* duplicated, a selection that resolved still resolves, isSaving is false
\* again and an error toast is shown.
C20_FailedSaveKeepsDraft ==
  [][\A err \in GatewayErrors :
       SaveCatch(err) =>
         /\ functions' = functions
         /\ selectedId' = selectedId
         /\ NoDuplicateIds(functions')
         /\ (selectedFunction # None => selectedFunction' # None)
         /\ (DraftInList =>
              FindFn(functions', Some(Val(saveCall).id)) = saveCall)
         /\ IsSome(toast') /\ Val(toast').type = "error"
         /\ ~isSaving']_vars

\* the failure toast is on display and the draft that was sent is still
\* selected
C20_Witness ==
  /\ IsSome(toast) /\ Val(toast).message = "MSG_SAVE_FAILED"
  /\ ~isSaving
  /\ selectedFunction # None
  /\ Val(selectedFunction).id < 0

-----------------------------------------------------------------------------
(* Properties of drafts *)

DraftIds(fns) == {id \in FnIds(fns) : id < 0}

\* the draft ids handed out so far: one per increment of draftCounter
IssuedDraftIds == {-i : i \in 1..draftCounter}

\* the network calls in flight
CallsInFlight == <<invokeCalls, pollCalls, deleteCall, saveCall>>

CreatesDraft ==
  \E lang \in FormLanguages : handleCreateFunctionWithin(MaxListDrafts, lang)

\* C21: every draft id in the list or in a save call is one of the ids handed
\* out so far, and the draft that handleCreateFunction adds gets a strictly
\* negative id that is in the list nowhere and was never handed out before,
\* deleted and saved drafts included; creating it sends no network call.
C21_FreshDraftId ==
  [][/\ IssuedDraftIds \subseteq IssuedDraftIds'
     /\ DraftIds(functions') \subseteq IssuedDraftIds'
     /\ (CreatesDraft =>
          LET id == functions'[Len(functions')].id IN
          /\ Len(functions') = Len(functions) + 1
          /\ id < 0
          /\ id \notin FnIds(functions)
          /\ id \notin IssuedDraftIds
          /\ IssuedDraftIds' = IssuedDraftIds \cup {id}
          /\ selectedId' = Some(id)
          /\ CallsInFlight' = CallsInFlight)]_vars

\* a second draft was created after the first one had been deleted or saved
C21_Witness ==
  /\ draftCounter = 2
  /\ DraftIds(functions) = {-2}
  /\ selectedId = Some(-2)

\* no request is sent: every call in flight after the step was in flight
\* before it
NoNewCall ==
  /\ DOMAIN invokeCalls' \subseteq DOMAIN invokeCalls
  /\ \A c \in pollCalls' : c.age > 0 \/ c \in pollCalls
  /\ deleteCall' \in {deleteCall, None}
  /\ saveCall' \in {saveCall, None}
  /\ detailCall' \in {detailCall, None}
  /\ historyCall' \in {historyCall, None}
  /\ (listCall' => listCall)

\* the requests sent by the step are getFunction and listInvocations for the
\* server function that is selected after it
OnlyFetchesNewSelection ==
  /\ DOMAIN invokeCalls' \subseteq DOMAIN invokeCalls
  /\ \A c \in pollCalls' : c.age > 0 \/ c \in pollCalls
  /\ deleteCall' \in {deleteCall, None}
  /\ saveCall' \in {saveCall, None}
  /\ (listCall' => listCall)
  /\ (detailCall' \notin {detailCall, None} =>
       (detailCall' = selectedId' /\ Val(selectedId') > 0))
  /\ (historyCall' \notin {historyCall, None} =>
       (Some(Val(historyCall').fn) = selectedId' /\ Val(selectedId') > 0))

\* the gestures of C22 on the selected draft
EditsCode == ListEdit(EditedCode)
ChangesLanguage == \E lang \in Languages : ListLanguage(lang)
SelectsDraft == \E id \in DraftIds(functions) : ListSelect(id)
OpensHistory == ListTab("history")

\* changing the language of the selected draft sets its language and its
\* code and nothing else in the list
LanguageChangeFrame ==
  \A lang \in Languages :
    (DraftSelected /\ ListLanguage(lang)) =>
      LET i == IndexOf(functions, Val(selectedId)) IN
      /\ Len(functions') = Len(functions)
      /\ functions'[i] =
           [functions[i] EXCEPT !.language = lang,
                                !.code = defaultCodeByLanguage(lang)]
      /\ \A j \in (1..Len(functions)) \ {i} : functions'[j] = functions[j]
      /\ selectedId' = selectedId

\* a createFunction call is sent only by Save on a draft, and no other call
\* is ever made for a draft
OnlySaveCallsForDraft ==
  /\ (saveCall' \notin {saveCall, None} => (DraftSelected /\ ListSave))
  /\ (IsSome(saveCall') => Val(saveCall').id < 0)
  /\ (IsSome(deleteCall') => Val(deleteCall').fn > 0)
  /\ (IsSome(detailCall') => Val(detailCall') > 0)
  /\ (IsSome(historyCall') => Val(historyCall').fn > 0)

C23_SelectionResolves ==
  \/ selectedId = None
  \/ Cardinality({i \in 1..Len(functions) :
                    functions[i].id = Val(selectedId)}) = 1

\* the list was loaded from the registry while a draft was being saved, and
\* the saved function is selected
C23_Witness ==
  /\ ~listCall
  /\ Len(functions) = 3
  /\ functions[1].id = 2
  /\ functions[3].id \in ServerIds
  /\ selectedId = Some(functions[3].id)
  /\ IsSome(toast) /\ Val(toast).message = "MSG_SAVED"

\* list, selection and tracker are what they were before the step
ListAndTrackerKept ==
  /\ functions' = functions /\ selectedId' = selectedId
  /\ runStatus' = runStatus /\ runLogs' = runLogs /\ runResult' = runResult
  /\ runDurationMs' = runDurationMs /\ runMessage' = runMessage
  /\ isRunning' = isRunning
  /\ intervals' = intervals /\ timeouts' = timeouts
  /\ refVars' = refVars

\* a function of the registry leaves the list
ServerEntryRemoved == \E id \in FnIds(functions) \ FnIds(functions') : id > 0

\* Delete is pressed on a function of the registry
DeleteRequested ==
  /\ selectedFunction # None /\ Val(selectedFunction).id > 0
  /\ handleDelete /\ Keep

\* C24: when deleteFunction rejects, the list, the selection and the tracker
\* (status, logs, result, polling interval, run timeout) are left as they
\* are, isDeleting is false again and an error toast is shown; pressing
\* Delete on a server function changes none of them either, and an entry of
\* the registry leaves the list only in the step where the delete call
\* succeeds.
C24_FailedDeleteKeepsState ==
  [][/\ \A err \in GatewayErrors :
          (DeleteCatch(err) /\ Keep) =>
            /\ ListAndTrackerKept
            /\ toast' = Some([type |-> "error", message |-> err])
            /\ ~isDeleting'
     /\ (DeleteRequested => ListAndTrackerKept)
     /\ (ServerEntryRemoved => (DeleteThen /\ Keep))]_vars

\* the delete of the selected function failed while its run was being polled
C24_Witness ==
  /\ toast = Some([type |-> "error", message |-> "E_GATEWAY"])
  /\ ~isDeleting
  /\ selectedId = Some(1) /\ Len(functions) = Len(initialFunctions)
  /\ isRunning /\ IsSome(pollRef) /\ IsSome(runTimeoutRef)

\* the drafts of a list
DraftEntries(fns) == {fns[i] : i \in {j \in 1..Len(fns) : fns[j].id < 0}}

\* the user edits the code or the language of the selected entry
EditsSelected ==
  ListEdit(EditedCode) \/ (\E lang \in Languages : ListLanguage(lang))

\* the listFunctions call of the initial load is answered
LoadAnswered == \E mapped \in ServerLists : LoadThen(mapped) /\ Answer

\* C33: a draft stays in the list as it is, code and language included,
\* unless the step edits it, deletes it or is the success of its save; the
\* answer of the initial listFunctions load neither removes a draft nor moves
\* the selection away from a selected draft.
C33_DraftStaysUntilDeletedOrSaved ==
  [][/\ \A d \in DraftEntries(functions) :
          \/ d \in DraftEntries(functions')
          \/ /\ selectedId = Some(d.id) /\ EditsSelected
             /\ d.id \in DraftIds(functions')
          \/ selectedId = Some(d.id) /\ ListDelete
          \/ /\ saveCall # None /\ Val(saveCall).id = d.id
             /\ \E res \in CreateResponses(Val(saveCall)) : ListSaveThen(res)
     /\ ((LoadAnswered /\ selectedId # None /\ Val(selectedId) < 0) =>
           (selectedId' = selectedId))]_vars

\* the getFunction call listened to is answered or fails
DetailAnswered ==
  \/ \E detail \in DetailResponses : DetailThen(detail) /\ Answer
  \/ DetailCatch /\ Answer

\* the entries of the list other than the one with this id
OtherEntries(fns, id) == {fns[i] : i \in {j \in 1..Len(fns) : fns[j].id # id}}

\* C34: the answer of the getFunction call sent for the selected function is
\* listened to as long as that function stays selected, whatever edits or
\* store updates happen meanwhile, and an answer that carries a code puts the
\* server's code in the list; the call listened to is always the one of the
\* selected function, and its answer alters no other entry.
C34_DetailAnswerReachesSelected ==
  /\ [](IsSome(detailCall) => (selectedId = detailCall))
  /\ [][/\ (/\ IsSome(detailCall) /\ selectedId = detailCall
             /\ selectedId' = selectedId /\ ~DetailAnswered) =>
              (detailCall' = detailCall)
        /\ \A detail \in DetailResponses :
             (DetailThen(detail) /\ Answer) =>
               /\ OtherEntries(functions', Val(detailCall)) =
                    OtherEntries(functions, Val(detailCall))
               /\ ((IsSome(detail.code) /\ Len(Val(detail.code)) > 0) =>
                    (Val(FindFn(functions', selectedId')).code =
                       Val(detail.code)))]_vars

\* the history tab shows rows: lines 1358-1386
HistoryShown ==
  /\ activeTab = "history"
  /\ selectedFunction # None /\ Val(selectedFunction).id >= 0
  /\ ~historyLoading /\ historyError = None /\ historyRows # <<>>

\* a listInvocations call is answered, with rows or with an error
HistoryAnswered(call) ==
  \/ \E rows \in HistoryAnswers(call) : HistoryThen(call, rows) /\ Answer
  \/ \E err \in GatewayErrors : HistoryCatch(call, err) /\ Answer

\* C35: the call listened to is the last listInvocations call sent, for the
\* selected function with the history tab open, and nothing is shown while it
\* is in flight; the rows shown are rows of the selected function; rows and
\* error change only when a call is sent (both are emptied) or when the call
\* listened to is answered, and the answer of a call that was sent for
\* another selection or before the tab was left changes neither.
C35_HistoryFromLatestCall ==
  /\ [](/\ (IsSome(historyCall) =>
              /\ activeTab = "history"
              /\ selectedId = Some(Val(historyCall).fn)
              /\ historyLoading /\ historyRows = <<>>
              /\ historyError = None)
        /\ (HistoryShown =>
              (\A i \in 1..Len(historyRows) :
                 historyRows[i].function_id = Val(selectedId))))
  /\ [][/\ (<<historyRows, historyError>>' # <<historyRows, historyError>>) =>
              \/ /\ IsSome(historyCall') /\ historyCall' # historyCall
                 /\ historyRows' = <<>> /\ historyError' = None
              \/ IsSome(historyCall) /\ HistoryAnswered(Val(historyCall))
        /\ \A call \in HistoryCalls :
             (historyCall # Some(call) /\ HistoryAnswered(call)) =>
               UNCHANGED <<historyRows, historyError, historyLoading>>]_vars

\* the rows of the second call are shown, the first call having been
\* cancelled and answered
C35_Witness ==
  /\ HistoryShown
  /\ historyRows = <<[function_id |-> Val(selectedId), request |-> 1]>>
  /\ historyCall = None /\ staleHistoryCall = None

\* Save is pressed
SavePressed == handleSave /\ KeepProbe

-----------------------------------------------------------------------------
(* Properties of the function store *)

\* the ids of a list, in the order of the list
IdsInOrder(fns) == [i \in 1..Len(fns) |-> fns[i].id]

Others(fns, id) == SelectSeq(fns, LAMBDA fn : fn.id # id)

\* fns with the entry at index i taken out
TakenOut(fns, i) ==
  [j \in 1..(Len(fns) - 1) |-> IF j < i THEN fns[j] ELSE fns[j + 1]]

\* C38: removeFunction(id) takes out the entry with that id and nothing else,
\* the other entries keeping their order (a list without that id is left as
\* it is); when id was the selected id the selection becomes the first entry
\* left, or null when none is left; otherwise selectedId is unchanged.
C38_RemoveExactlyOne ==
  [][\A id \in StoreIds :
       StoreRemove(id) =>
         /\ IF id \in FnIds(functions)
              THEN functions' = TakenOut(functions, IndexOf(functions, id))
              ELSE functions' = functions
         /\ IF selectedId = Some(id)
              THEN selectedId' = IF functions' = <<>> THEN None
                                 ELSE Some(functions'[1].id)
              ELSE selectedId' = selectedId]_vars

\* the selected entry, the first of the list, was removed: the selection is
\* on the entry that was second
C38_Witness ==
  /\ IdsInOrder(functions) = <<2, 3>>
  /\ functions = Others(initialFunctions, 1)
  /\ selectedId = Some(2)

-----------------------------------------------------------------------------
(* Properties of failed calls *)

\* the failure of a submit or get-status call is what the tracker shows: no
\* Run or Reset has been pressed since
CallFailureShown ==
  /\ runStatus = "fail"
  /\ \E err \in GatewayErrors :
       runMessage \in {TextWith("MSG_INVOKE_FAILED", err),
                       TextWith("MSG_POLL_FAILED", err)}

\* C27: nothing is retried: while the failure of a submit or get-status call
\* is on display, no get-status call is sent, and a submit call is sent only
\* by pressing Run.
C27_NoAutomaticRetry ==
  [][CallFailureShown =>
       /\ ~IssuesGetStatus
       /\ (DOMAIN invokeCalls' \subseteq DOMAIN invokeCalls \/ handleRun)]_vars

\* the response was accepted: what it carries is recorded, the [Invoke] line
\* is appended and the interval of run k is started
Accepted(k, res) ==
  /\ (IsSome(res.result) => runResult' = Stringify(Val(res.result)))
  /\ (IsSome(res.duration_ms) => runDurationMs' = res.duration_ms)
  /\ runLogs' = Append(runLogs,
                       LogLine("Invoke", Val(res.invocation_id),
                               Val(res.status)))
  /\ k \in DOMAIN intervals' /\ pollRef' = Some(k)

\* the response was failed as missing its invocation id
FailedAsMissingId(k) ==
  /\ runMessage' = Text("MSG_INVOCATION_ID_MISSING")
  /\ runStatus' = "fail"
  /\ k \notin DOMAIN intervals'

\* C29: a submit response is accepted (result and duration recorded, the
\* [Invoke] line appended, the polling interval started) exactly when it
\* carries an invocation id, whatever its value, 0 included; only a response
\* without the id is failed as missing its invocation id.
C29_PollingStartsIffIdPresent ==
  [][\A k \in Runs, res \in InvokeResponsesAll :
       (InvokeThen(k, res) /\ Keep) =>
         /\ (IsSome(res.invocation_id) => Accepted(k, res))
         /\ (~IsSome(res.invocation_id) => FailedAsMissingId(k))]_vars

\* the log lines written for poll responses: `[${polledStatus}] ${logged_at}`
IsPollLine(line) == line.tag \in {"queued", "processing", "success", "fail"}
PollLines(logs) == {i \in 1..Len(logs) : IsPollLine(logs[i])}

\* the timestamp of the last poll line of the log, if there is one
LastLoggedAt(logs) ==
  IF PollLines(logs) = {} THEN None
  ELSE Some(logs[CHOOSE i \in PollLines(logs) :
                   \A j \in PollLines(logs) : j <= i].text)

\* C30: a poll response adds a log line only when its logged_at differs from
\* the timestamp of the last poll line of the log: a response that repeats
\* the timestamp adds no poll line, a response with a new one adds one.
C30_LogOnlyNewTimestamp ==
  [][\A c \in pollCalls, res \in PollResponsesAll :
       (PollThen(c, res) /\ Keep /\ Truthy(res.logged_at)) =>
         IF LastLoggedAt(runLogs) = Some(Text(Val(res.logged_at)))
           THEN PollLines(runLogs') = PollLines(runLogs)
           ELSE Cardinality(PollLines(runLogs')) =
                  Cardinality(PollLines(runLogs)) + 1]_vars

\* C31: when a poll response whose status is success or fail is handled, the
\* duration shown afterwards is not null: it is the response's duration when
\* the response carries one, and otherwise the time elapsed since the run
\* was submitted, which is not negative.
C31_TerminalPollHasDuration ==
  [][\A c \in pollCalls, res \in PollResponsesAll :
       (PollThen(c, res) /\ Keep /\ IsTerminal(PolledStatusOf[res])) =>
         /\ runDurationMs' # None
         /\ (IsSome(res.duration_ms) => (runDurationMs' = res.duration_ms))
         /\ (~IsSome(res.duration_ms) =>
              /\ runDurationMs' = Some(elapsed[c.run] * 1000)
              /\ Val(runDurationMs') >= 0)]_vars

\* a poll answered fail without a duration one second after the submit
C31_Witness ==
  /\ runStatus = "fail" /\ runMessage = Text("E1") /\ ~isRunning
  /\ runDurationMs = Some(1000)

\* the run timeout of the current run is armed
RunTimeoutArmed == IsSome(runTimeoutRef) /\ Val(runTimeoutRef) \in DOMAIN timeouts

\* a submit or get-status call is in flight
RunCallInFlight == DOMAIN invokeCalls # {} \/ pollCalls # {}

\* C32: while isRunning is true (the Run button is disabled) the run timeout
\* is armed or a submit or get-status call is in flight;
\* deleting the selected function during a run does not leave isRunning true
\* with no timer armed.
C32_RunningHasBackstop == isRunning => (RunTimeoutArmed \/ RunCallInFlight)

\* the get-status calls of run k
PollCallsOf(k, calls) == {c \in calls : c.run = k}

\* C28: when invokeFunction rejects with error e, the status is fail, the
\* run message and the last log line carry e, isRunning is false and the run
\* timeout is cleared; a run has no polling interval and no get-status call
\* while its submit call is in flight, a run that was started and has neither
\* a submit call in flight nor an interval gets no interval, and a get-status
\* call is sent only for a run that has an interval: so no interval is ever
\* started and no get-status call ever sent for the run whose submit call
\* rejected.
C28_SubmitRejectionFailsRun ==
  /\ [](\A k \in DOMAIN invokeCalls :
          k \notin DOMAIN intervals /\ PollCallsOf(k, pollCalls) = {})
  /\ [][/\ \A k \in Runs, err \in GatewayErrors :
             (InvokeCatch(k, err) /\ Keep) =>
               /\ runStatus' = "fail"
               /\ runMessage' = TextWith("MSG_INVOKE_FAILED", err)
               /\ runLogs' = Append(runLogs, LogError(Text(err)))
               /\ ~isRunning'
               /\ runTimeoutRef' = None /\ DOMAIN timeouts' = {}
               /\ k \notin DOMAIN intervals'
               /\ PollCallsOf(k, pollCalls') = {}
        /\ \A k \in 1..runCount :
             (k \notin DOMAIN invokeCalls /\ k \notin DOMAIN intervals) =>
               (k \notin DOMAIN intervals')
        /\ \A c \in pollCalls' \ pollCalls :
             (c.age = 0) => (c.run \in DOMAIN intervals)]_vars

\* the submit call of the first run was rejected: the failure is shown and no
\* timer is left
C28_Witness ==
  /\ runCount = 1 /\ invokeCalls = EmptyMap /\ pollCalls = {}
  /\ runStatus = "fail" /\ ~isRunning
  /\ runMessage = TextWith("MSG_INVOKE_FAILED", "E_GATEWAY")
  /\ runLogs # <<>> /\ runLogs[Len(runLogs)] = LogError(Text("E_GATEWAY"))
  /\ DOMAIN intervals = {} /\ DOMAIN timeouts = {} /\ runTimeoutRef = None

-----------------------------------------------------------------------------
(* Properties of apiRequest *)

\* the call has settled on a response that is not ok, without being aborted
SettledNotOk ==
  /\ request.phase = "settled" /\ ~request.aborted
  /\ IsSome(request.res) /\ ~Val(request.res).ok

\* the body is JSON: announced as JSON and accepted by JSON.parse
BodyIsJson(res) ==
  isJson(res.contentType) /\ res.body.parsed.kind # "SyntaxError"

\* the message the rule gives: the message member of a JSON body, else the
\* serialized JSON body, else the raw text, else the fallback
RuleMessage(res) ==
  IF BodyIsJson(res) /\ ~Nullish(res.body.parsed.message)
    THEN Val(res.body.parsed.message)
  ELSE IF BodyIsJson(res) THEN res.body.parsed.pretty
  ELSE IF res.body.text # "" THEN res.body.text
  ELSE "Request failed"

\* C25: for a response whose status is not ok, apiRequest throws, and the
\* Error's message is the message member of a JSON body that has one, else
\* the serialized JSON body, else the raw text of the body, else the
\* fallback "Request failed" when none of these yields a message.
C25_ErrorMessageRule ==
  SettledNotOk =>
    /\ request.outcome.kind = "error"
    /\ request.outcome.message = RuleMessage(Val(request.res))

\* a call is unsettled while fetch or the body read is pending
Unsettled == request.phase \in {"fetch", "body"}

\* C26: a call whose response has not been fully received when timeoutMs
\* (10 s unless the caller passes one) have passed is aborted and settles
\* with an error, never with a value; a call that has settled has no abort
\* timer armed, and a call that settled without being aborted is never
\* aborted afterwards.
C26_TimeoutAbortsAndTimerCleared ==
  /\ [](/\ (request.age > request.timeoutS =>
              (request.aborted \/ request.phase = "settled"))
        /\ ((request.aborted /\ request.phase = "settled") =>
              request.outcome.kind = "error")
        /\ (request.phase = "settled" => ~request.timeout)
        /\ (request.phase # "idle" =>
              request.timeoutS \in {REQUEST_TIMEOUT_S, MaxCallerTimeout}))
  /\ [][/\ ((Unsettled /\ request.aborted /\ request'.phase = "settled") =>
              request'.outcome.kind = "error")
        /\ ((request.phase = "settled" /\ ~request.aborted) =>
              ~request'.aborted)]_vars

\* the default timeout passed with fetch still pending: the call was aborted
\* and failed
C26_Witness ==
  /\ request.phase = "settled" /\ request.aborted
  /\ request.timeoutS = REQUEST_TIMEOUT_S /\ request.age = REQUEST_TIMEOUT_S
  /\ request.res = None
  /\ request.outcome = Thrown("AbortError")

-----------------------------------------------------------------------------
(* Properties of the status functions *)

Observed == probeOut # NoProbe
HasResult == probeIn.result \notin {None, Some("null")}
HasError == probeIn.error_message \notin {None, Some("")}
NormalizesToProcessing == normalizeStatus(probeIn.status) = "processing"

\* C15 as stated, its two clauses read independently: a poll response that
\* normalizes to processing reports success when it carries a result, and
\* reports fail when it carries a non-empty error message; every other
\* response reports its normalized status
C15_BothClausesApply ==
  Observed =>
    /\ ((NormalizesToProcessing /\ HasResult) => probeOut.polled = "success")
    /\ ((NormalizesToProcessing /\ HasError) => probeOut.polled = "fail")
    /\ (~(NormalizesToProcessing /\ (HasResult \/ HasError)) =>
          probeOut.polled = normalizeStatus(probeIn.status))

\* C15, amended: the result is looked at first. A poll response that
\* normalizes to processing and carries a result (any non-null object, the
\* empty object included) reports success, whatever its error message; one
\* that normalizes to processing, carries no result and carries a non-empty
\* error message reports fail; every other response reports its normalized
\* status
C15_ResultBeforeError ==
  Observed =>
    /\ ((NormalizesToProcessing /\ HasResult) => probeOut.polled = "success")
    /\ ((NormalizesToProcessing /\ ~HasResult /\ HasError) =>
          probeOut.polled = "fail")
    /\ (~(NormalizesToProcessing /\ (HasResult \/ HasError)) =>
          probeOut.polled = normalizeStatus(probeIn.status))

C15_Witness ==
  /\ Observed
  /\ NormalizesToProcessing /\ HasResult /\ HasError
  /\ probeOut.polled = "success"

\* C36: a response that normalizes to processing and carries both a result
\* and an error message is reported as success; a response that normalizes
\* to queued is reported as queued whatever result or error it carries.
C36_ResultWinsQueuedUntouched ==
  Observed =>
    /\ ((probeOut.normalized = "processing" /\ HasResult /\ HasError) =>
          (probeOut.polled = "success"))
    /\ ((probeOut.normalized = "queued") => (probeOut.polled = "queued"))

\* "run" with an empty object as result and an error message: success
C36_Witness ==
  /\ Observed
  /\ probeIn.status = Some(S_run)
  /\ probeIn.result = Some("{}") /\ probeIn.error_message = Some("E1")
  /\ probeOut.normalized = "processing" /\ probeOut.polled = "success"

\* s contains the keyword w when case is ignored
ContainsIgnoringCase(s, w) ==
  \E i \in 1..Len(s) :
    /\ i + Len(w) - 1 <= Len(s)
    /\ \A j \in 1..Len(w) : LowerOf(s[i + j - 1]) = w[j]

\* the status text, the empty text when the status is undefined
StatusText == IF probeIn.status = None THEN <<>> ELSE probeIn.status[1]
Mentions(w) == ContainsIgnoringCase(StatusText, w)
MentionsProcessing == Mentions(S_process) \/ Mentions(S_run)
MentionsSuccess ==
  Mentions(S_success) \/ Mentions(S_complete) \/ Mentions(S_done)
MentionsFail == Mentions(S_fail) \/ Mentions(S_error)

\* C16: normalizeStatus gives a value for every status, undefined and the
\* empty string included, never idle, and the value is the one of the ordered
\* case-insensitive first-match rule: queue gives queued; else process or run
\* gives processing; else success, complete or done gives success; else fail
\* or error gives fail; else processing
C16_FirstMatchWins ==
  Observed =>
    /\ probeOut.normalized \in {"queued", "processing", "success", "fail"}
    /\ (Mentions(S_queue) => probeOut.normalized = "queued")
    /\ ((~Mentions(S_queue) /\ MentionsProcessing) =>
          probeOut.normalized = "processing")
    /\ ((~Mentions(S_queue) /\ ~MentionsProcessing /\ MentionsSuccess) =>
          probeOut.normalized = "success")
    /\ ((/\ ~Mentions(S_queue) /\ ~MentionsProcessing
         /\ ~MentionsSuccess /\ MentionsFail) =>
          probeOut.normalized = "fail")
    /\ ((/\ ~Mentions(S_queue) /\ ~MentionsProcessing
         /\ ~MentionsSuccess /\ ~MentionsFail) =>
          probeOut.normalized = "processing")

\* an upper-case status naming both success and queue is read as queued
C16_Witness ==
  /\ Observed
  /\ probeIn.status = Some(toUpperCase(S_success \o S_queue))
  /\ probeOut.normalized = "queued"

=============================================================================
